---- MODULE Spec2Model ----
(***************************************************************************)
(* The base-output swap of the gamma AMM pool                              *)
(* (programs/gamma/src/instructions/swap_base_output.rs) and its price     *)
(* oracle (programs/gamma/src/states/oracle.rs).                           *)
(*                                                                         *)
(* Integers.  TLC computes in 32-bit integers, so the program's u64 and    *)
(* u128 are scaled to 20 and 30 bits (U64_MAX, U128_MAX).  Every checked   *)
(* operation tests its bound before it computes, so that no intermediate   *)
(* value leaves TLC's range.  The Q32 fixed point is scaled with them to   *)
(* 10 fractional bits, which keeps the program's property that a price     *)
(* built from two u64 reserves fits a u128.  The program's other           *)
(* constants (10_000, 100000, OBSERVATION_NUM) keep their values.          *)
(*                                                                         *)
(* State.  pool, observation_state and balances are the accounts as the    *)
(* ledger holds them between transactions.  The handler works on the       *)
(* accounts' buffers in place; the working copies it leaves behind, the    *)
(* transfers it requested and the steps it took are kept in last.          *)
(***************************************************************************)
EXTENDS Integers, Sequences, FiniteSets, TLC

U64_MAX == 1048575
U128_MAX == 1073741823
OBSERVATION_NUM == 100
MaxSwaps == 1

NONE == 0 - 1

Min(a, b) == IF a < b THEN a ELSE b

\* floor(a * b / d) and ceil(a * b / d), dividing first (b <= 2 * d is expected)
MulDivFloor(a, b, d) == (a \div d) * b + (((a % d) * b) \div d)
MulDivCeil(a, b, d) == (a \div d) * b + (((a % d) * b + d - 1) \div d)

(***************************************************************************)
(* Rust's checked, saturating and wrapping integer operations at width max *)
(***************************************************************************)
checked_add(a, b, max) == IF b > max - a THEN NONE ELSE a + b
checked_sub(a, b) == IF b > a THEN NONE ELSE a - b
checked_mul(a, b, max) ==
    IF a = 0 \/ b = 0 THEN 0
    ELSE IF a > max \div b THEN NONE ELSE a * b
checked_div(a, b) == IF b = 0 THEN NONE ELSE a \div b
saturating_sub(a, b) == IF b > a THEN 0 ELSE a - b
wrapping_add(a, b, max) == IF b > max - a THEN a - (max - b) - 1 ELSE a + b
\* u64::try_from(u128)
try_from_u64(x) == IF x > U64_MAX THEN NONE ELSE x

VARIABLES
    pool,               \* PoolState account
    observation_state,  \* ObservationState account
    balances,           \* token accounts: the trader's, the vaults', the referrer's
    amm_config,         \* AmmConfig account (read only)
    mints,              \* the two mints' transfer-fee settings (read only)
    clock,              \* Clock sysvar
    swaps,              \* transactions submitted so far
    last                \* the last transaction: inputs, locals, working copies, outcome

vars == <<pool, observation_state, balances, amm_config, mints, clock, swaps, last>>

(***************************************************************************)
(* Collaborators whose code is outside the files at hand, modelled from    *)
(* their description in the specification (sections 3, 4.1 and 6)          *)
(***************************************************************************)
\* fee denominator of the rates in AmmConfig ("e.g. 10,000")
FEE_RATE_DENOMINATOR_VALUE == 10000
\* one in the scaled Q32 fixed point
Q32 == (U128_MAX + 1) \div (U64_MAX + 1)
\* basis-point denominator of a mint's transfer fee
MAX_FEE_BASIS_POINTS == 10000

\* transfer_fee(mint, amount): withheld from amount when it is sent
get_transfer_fee(mint, amount) ==
    Min(MulDivCeil(amount, mint.transfer_fee_basis_points, MAX_FEE_BASIS_POINTS),
        mint.maximum_fee)

\* inverse_transfer_fee(mint, net): sending net + fee delivers net
get_transfer_inverse_fee(mint, net) ==
    IF mint.transfer_fee_basis_points = 0 THEN 0
    ELSE IF mint.transfer_fee_basis_points = MAX_FEE_BASIS_POINTS THEN mint.maximum_fee
    ELSE LET pre == MulDivCeil(net, MAX_FEE_BASIS_POINTS,
                               MAX_FEE_BASIS_POINTS - mint.transfer_fee_basis_points)
         IN  Min(pre - net, mint.maximum_fee)

\* PoolState::get_status_by_bit(PoolStatusBitIndex::Swap)
get_status_by_bit_Swap(p) == p.swap_enabled

\* PoolState::vault_amount_without_fee: the recorded reserves, net of accrued fees
vault_amount_without_fee(p) == <<p.token_0_vault_amount, p.token_1_vault_amount>>

\* PoolState::token_price_x32: the two spot prices in Q32; NONE when a reserve is empty
token_price_x32(p) ==
    IF p.token_0_vault_amount = 0 \/ p.token_1_vault_amount = 0 THEN <<NONE, NONE>>
    ELSE <<(p.token_1_vault_amount * Q32) \div p.token_0_vault_amount,
           (p.token_0_vault_amount * Q32) \div p.token_1_vault_amount>>

NoResult ==
    [new_swap_source_amount |-> 0, new_swap_destination_amount |-> 0,
     source_amount_swapped |-> 0, destination_amount_swapped |-> 0,
     dynamic_fee |-> 0, protocol_fee |-> 0, fund_fee |-> 0, dynamic_fee_rate |-> 0]

\* CurveCalculator::swap_base_output on the constant-product curve: the source
\* amount is rounded up, the dynamic fee is charged on the input side at the rate
\* the fee policy chose, and split with the configured protocol and fund rates.
\* Its multiplications are checked in the 128-bit domain: scaling the pre-fee
\* amount by the fee denominator, or adding the source to the reserve, beyond
\* u128 is its "math overflow".  A requested output of zero gives a result with
\* a zero source amount.
CurveCalculator_swap_base_output(amount_out, reserve_in, reserve_out, cfg, rate) ==
    IF amount_out >= reserve_out
    THEN [err |-> "ZeroTradingTokens", value |-> NoResult]
    ELSE LET pre == (amount_out * reserve_in + (reserve_out - amount_out) - 1)
                        \div (reserve_out - amount_out)
             source == MulDivCeil(pre, FEE_RATE_DENOMINATOR_VALUE,
                                  FEE_RATE_DENOMINATOR_VALUE - rate)
             fee == MulDivCeil(source, rate, FEE_RATE_DENOMINATOR_VALUE)
         IN  IF checked_mul(pre, FEE_RATE_DENOMINATOR_VALUE, U128_MAX) = NONE
                \/ source > U128_MAX - reserve_in
             THEN [err |-> "MathOverflow", value |-> NoResult]
             ELSE [err |-> "Ok",
                   value |->
                     [new_swap_source_amount |-> reserve_in + source,
                      new_swap_destination_amount |-> reserve_out - amount_out,
                      source_amount_swapped |-> source,
                      destination_amount_swapped |-> amount_out,
                      dynamic_fee |-> fee,
                      protocol_fee |-> MulDivFloor(fee, cfg.protocol_fee_rate,
                                                   FEE_RATE_DENOMINATOR_VALUE),
                      fund_fee |-> MulDivFloor(fee, cfg.fund_fee_rate,
                                               FEE_RATE_DENOMINATOR_VALUE),
                      dynamic_fee_rate |-> rate]]

\* the token program's transfer (transfer_checked, reached directly and through
\* transfer_from_user_to_pool_vault and transfer_from_pool_vault_to_user): the
\* sender is debited amount, the receiver gets amount less the mint's fee;
\* not ok when the sender holds less than amount
transfer_checked(bal, from, to, mint, amount) ==
    IF bal[from] < amount THEN [ok |-> FALSE, bal |-> bal]
    ELSE LET debited == [bal EXCEPT ![from] = @ - amount]
         IN  [ok |-> TRUE,
              bal |-> [debited EXCEPT
                          ![to] = @ + (amount - get_transfer_fee(mint, amount))]]

\* a result the calculator's contract excludes, which the handler's own checks
\* (narrowing, require_gt, require_eq, the constant-product check) guard against
OffContract(res, fault) ==
    IF res.err # "Ok" \/ fault = "none" THEN res
    ELSE [res EXCEPT !.value =
        CASE fault = "dst_short" ->
                [@ EXCEPT !.destination_amount_swapped = saturating_sub(@, 1)]
          [] fault = "k_low" ->
                [@ EXCEPT !.new_swap_destination_amount = @ \div 2]
          [] fault = "fee_over_src" ->
                [@ EXCEPT !.dynamic_fee = res.value.new_swap_source_amount + 1]
          [] fault = "src_wide" ->
                [@ EXCEPT !.source_amount_swapped = U64_MAX + 1,
                          !.new_swap_source_amount = @ + U64_MAX + 1]
          [] fault = "dst_wide" ->
                [@ EXCEPT !.destination_amount_swapped = U64_MAX + 1]
          [] fault = "protocol_wide" -> [@ EXCEPT !.protocol_fee = U64_MAX + 1]
          [] fault = "fund_wide" -> [@ EXCEPT !.fund_fee = U64_MAX + 1]
          [] fault = "fee_wide" ->
                [@ EXCEPT !.dynamic_fee = U64_MAX + 1,
                          !.new_swap_source_amount = @ + U64_MAX + 1]
          [] OTHER -> @]

(***************************************************************************)
(* ObservationState::update (oracle.rs)                                    *)
(***************************************************************************)
Observation_default ==
    [block_timestamp |-> 0, cumulative_token_0_price_x32 |-> 0,
     cumulative_token_1_price_x32 |-> 0]

ObservationState_default ==
    [initialized |-> FALSE, observation_index |-> 0,
     observations |-> [i \in 0 .. (OBSERVATION_NUM - 1) |-> Observation_default]]

\* faulty variant: an update at the current timestamp writes a new observation
ObservationState_update_Rewrite(self, block_timestamp, token_0_price_x32, token_1_price_x32) ==
    LET observation_index == self.observation_index IN
    IF ~self.initialized
    THEN [err |-> "Ok",
          state |-> [self EXCEPT
              !.initialized = TRUE,
              !.observations[observation_index] =
                  [block_timestamp |-> block_timestamp,
                   cumulative_token_0_price_x32 |-> 0,
                   cumulative_token_1_price_x32 |-> 0]]]
    ELSE
    LET last_observation == self.observations[observation_index]
        delta_time == saturating_sub(block_timestamp, last_observation.block_timestamp)
    IN
    LET delta_token_0_price_x32 == checked_mul(token_0_price_x32, delta_time, U128_MAX)
        delta_token_1_price_x32 == checked_mul(token_1_price_x32, delta_time, U128_MAX)
        next_observation_index ==
            IF observation_index = OBSERVATION_NUM - 1 THEN 0 ELSE observation_index + 1
    IN
    IF delta_token_0_price_x32 = NONE \/ delta_token_1_price_x32 = NONE
    THEN [err |-> "MathOverflow", state |-> self]
    ELSE [err |-> "Ok",
          state |-> [self EXCEPT
              !.observations[next_observation_index] =
                  [block_timestamp |-> block_timestamp,
                   cumulative_token_0_price_x32 |->
                       wrapping_add(last_observation.cumulative_token_0_price_x32,
                                    delta_token_0_price_x32, U128_MAX),
                   cumulative_token_1_price_x32 |->
                       wrapping_add(last_observation.cumulative_token_1_price_x32,
                                    delta_token_1_price_x32, U128_MAX)],
              !.observation_index = next_observation_index]]

\* faulty variant: the index turns to 0 one slot early
ObservationState_update_EarlyWrap(self, block_timestamp, token_0_price_x32, token_1_price_x32) ==
    LET observation_index == self.observation_index IN
    IF ~self.initialized
    THEN [err |-> "Ok",
          state |-> [self EXCEPT
              !.initialized = TRUE,
              !.observations[observation_index] =
                  [block_timestamp |-> block_timestamp,
                   cumulative_token_0_price_x32 |-> 0,
                   cumulative_token_1_price_x32 |-> 0]]]
    ELSE
    LET last_observation == self.observations[observation_index]
        delta_time == saturating_sub(block_timestamp, last_observation.block_timestamp)
    IN
    IF delta_time = 0 THEN [err |-> "Ok", state |-> self]
    ELSE
    LET delta_token_0_price_x32 == checked_mul(token_0_price_x32, delta_time, U128_MAX)
        delta_token_1_price_x32 == checked_mul(token_1_price_x32, delta_time, U128_MAX)
        next_observation_index ==
            IF observation_index >= OBSERVATION_NUM - 2 THEN 0 ELSE observation_index + 1
    IN
    IF delta_token_0_price_x32 = NONE \/ delta_token_1_price_x32 = NONE
    THEN [err |-> "MathOverflow", state |-> self]
    ELSE [err |-> "Ok",
          state |-> [self EXCEPT
              !.observations[next_observation_index] =
                  [block_timestamp |-> block_timestamp,
                   cumulative_token_0_price_x32 |->
                       wrapping_add(last_observation.cumulative_token_0_price_x32,
                                    delta_token_0_price_x32, U128_MAX),
                   cumulative_token_1_price_x32 |->
                       wrapping_add(last_observation.cumulative_token_1_price_x32,
                                    delta_token_1_price_x32, U128_MAX)],
              !.observation_index = next_observation_index]]

\* faulty variant: the cumulative price of token 0 stops at the largest u128
ObservationState_update_Saturating(self, block_timestamp, token_0_price_x32, token_1_price_x32) ==
    LET observation_index == self.observation_index IN
    IF ~self.initialized
    THEN [err |-> "Ok",
          state |-> [self EXCEPT
              !.initialized = TRUE,
              !.observations[observation_index] =
                  [block_timestamp |-> block_timestamp,
                   cumulative_token_0_price_x32 |-> 0,
                   cumulative_token_1_price_x32 |-> 0]]]
    ELSE
    LET last_observation == self.observations[observation_index]
        delta_time == saturating_sub(block_timestamp, last_observation.block_timestamp)
    IN
    IF delta_time = 0 THEN [err |-> "Ok", state |-> self]
    ELSE
    LET delta_token_0_price_x32 == checked_mul(token_0_price_x32, delta_time, U128_MAX)
        delta_token_1_price_x32 == checked_mul(token_1_price_x32, delta_time, U128_MAX)
        next_observation_index ==
            IF observation_index = OBSERVATION_NUM - 1 THEN 0 ELSE observation_index + 1
    IN
    IF delta_token_0_price_x32 = NONE \/ delta_token_1_price_x32 = NONE
    THEN [err |-> "MathOverflow", state |-> self]
    ELSE [err |-> "Ok",
          state |-> [self EXCEPT
              !.observations[next_observation_index] =
                  [block_timestamp |-> block_timestamp,
                   cumulative_token_0_price_x32 |->
                       (IF delta_token_0_price_x32
                              > U128_MAX - last_observation.cumulative_token_0_price_x32
                        THEN U128_MAX
                        ELSE last_observation.cumulative_token_0_price_x32
                                 + delta_token_0_price_x32),
                   cumulative_token_1_price_x32 |->
                       wrapping_add(last_observation.cumulative_token_1_price_x32,
                                    delta_token_1_price_x32, U128_MAX)],
              !.observation_index = next_observation_index]]

\* faulty variant: the first observation takes the prices as its cumulative values
ObservationState_update_Seeded(self, block_timestamp, token_0_price_x32, token_1_price_x32) ==
    LET observation_index == self.observation_index IN
    IF ~self.initialized
    THEN [err |-> "Ok",
          state |-> [self EXCEPT
              !.initialized = TRUE,
              !.observations[observation_index] =
                  [block_timestamp |-> block_timestamp,
                   cumulative_token_0_price_x32 |-> token_0_price_x32,
                   cumulative_token_1_price_x32 |-> token_1_price_x32]]]
    ELSE
    LET last_observation == self.observations[observation_index]
        delta_time == saturating_sub(block_timestamp, last_observation.block_timestamp)
    IN
    IF delta_time = 0 THEN [err |-> "Ok", state |-> self]
    ELSE
    LET delta_token_0_price_x32 == checked_mul(token_0_price_x32, delta_time, U128_MAX)
        delta_token_1_price_x32 == checked_mul(token_1_price_x32, delta_time, U128_MAX)
        next_observation_index ==
            IF observation_index = OBSERVATION_NUM - 1 THEN 0 ELSE observation_index + 1
    IN
    IF delta_token_0_price_x32 = NONE \/ delta_token_1_price_x32 = NONE
    THEN [err |-> "MathOverflow", state |-> self]
    ELSE [err |-> "Ok",
          state |-> [self EXCEPT
              !.observations[next_observation_index] =
                  [block_timestamp |-> block_timestamp,
                   cumulative_token_0_price_x32 |->
                       wrapping_add(last_observation.cumulative_token_0_price_x32,
                                    delta_token_0_price_x32, U128_MAX),
                   cumulative_token_1_price_x32 |->
                       wrapping_add(last_observation.cumulative_token_1_price_x32,
                                    delta_token_1_price_x32, U128_MAX)],
              !.observation_index = next_observation_index]]

\* faulty variant: the timestamp is written before the products are checked
ObservationState_update_WriteFirst(self, block_timestamp, token_0_price_x32, token_1_price_x32) ==
    LET observation_index == self.observation_index IN
    IF ~self.initialized
    THEN [err |-> "Ok",
          state |-> [self EXCEPT
              !.initialized = TRUE,
              !.observations[observation_index] =
                  [block_timestamp |-> block_timestamp,
                   cumulative_token_0_price_x32 |-> 0,
                   cumulative_token_1_price_x32 |-> 0]]]
    ELSE
    LET last_observation == self.observations[observation_index]
        delta_time == saturating_sub(block_timestamp, last_observation.block_timestamp)
    IN
    IF delta_time = 0 THEN [err |-> "Ok", state |-> self]
    ELSE
    LET delta_token_0_price_x32 == checked_mul(token_0_price_x32, delta_time, U128_MAX)
        delta_token_1_price_x32 == checked_mul(token_1_price_x32, delta_time, U128_MAX)
        next_observation_index ==
            IF observation_index = OBSERVATION_NUM - 1 THEN 0 ELSE observation_index + 1
    IN
    IF delta_token_0_price_x32 = NONE \/ delta_token_1_price_x32 = NONE
    THEN [err |-> "MathOverflow",
          state |-> [self EXCEPT
              !.observations[next_observation_index].block_timestamp = block_timestamp]]
    ELSE [err |-> "Ok",
          state |-> [self EXCEPT
              !.observations[next_observation_index] =
                  [block_timestamp |-> block_timestamp,
                   cumulative_token_0_price_x32 |->
                       wrapping_add(last_observation.cumulative_token_0_price_x32,
                                    delta_token_0_price_x32, U128_MAX),
                   cumulative_token_1_price_x32 |->
                       wrapping_add(last_observation.cumulative_token_1_price_x32,
                                    delta_token_1_price_x32, U128_MAX)],
              !.observation_index = next_observation_index]]

\* faulty variant: the elapsed time is the distance between the timestamps
ObservationState_update_AbsDelta(self, block_timestamp, token_0_price_x32, token_1_price_x32) ==
    LET observation_index == self.observation_index IN
    IF ~self.initialized
    THEN [err |-> "Ok",
          state |-> [self EXCEPT
              !.initialized = TRUE,
              !.observations[observation_index] =
                  [block_timestamp |-> block_timestamp,
                   cumulative_token_0_price_x32 |-> 0,
                   cumulative_token_1_price_x32 |-> 0]]]
    ELSE
    LET last_observation == self.observations[observation_index]
        delta_time == IF block_timestamp < last_observation.block_timestamp
                      THEN last_observation.block_timestamp - block_timestamp
                      ELSE block_timestamp - last_observation.block_timestamp
    IN
    IF delta_time = 0 THEN [err |-> "Ok", state |-> self]
    ELSE
    LET delta_token_0_price_x32 == checked_mul(token_0_price_x32, delta_time, U128_MAX)
        delta_token_1_price_x32 == checked_mul(token_1_price_x32, delta_time, U128_MAX)
        next_observation_index ==
            IF observation_index = OBSERVATION_NUM - 1 THEN 0 ELSE observation_index + 1
    IN
    IF delta_token_0_price_x32 = NONE \/ delta_token_1_price_x32 = NONE
    THEN [err |-> "MathOverflow", state |-> self]
    ELSE [err |-> "Ok",
          state |-> [self EXCEPT
              !.observations[next_observation_index] =
                  [block_timestamp |-> block_timestamp,
                   cumulative_token_0_price_x32 |->
                       wrapping_add(last_observation.cumulative_token_0_price_x32,
                                    delta_token_0_price_x32, U128_MAX),
                   cumulative_token_1_price_x32 |->
                       wrapping_add(last_observation.cumulative_token_1_price_x32,
                                    delta_token_1_price_x32, U128_MAX)],
              !.observation_index = next_observation_index]]

\* oracle.rs lines 69-108
ObservationState_update(self, block_timestamp, token_0_price_x32, token_1_price_x32) ==
    LET observation_index == self.observation_index IN
    IF ~self.initialized
    THEN [err |-> "Ok",
          state |-> [self EXCEPT
              !.initialized = TRUE,
              !.observations[observation_index] =
                  [block_timestamp |-> block_timestamp,
                   cumulative_token_0_price_x32 |-> 0,
                   cumulative_token_1_price_x32 |-> 0]]]
    ELSE
    LET last_observation == self.observations[observation_index]
        delta_time == saturating_sub(block_timestamp, last_observation.block_timestamp)
    IN
    IF delta_time = 0 THEN [err |-> "Ok", state |-> self]
    ELSE
    LET delta_token_0_price_x32 == checked_mul(token_0_price_x32, delta_time, U128_MAX)
        delta_token_1_price_x32 == checked_mul(token_1_price_x32, delta_time, U128_MAX)
        next_observation_index ==
            IF observation_index = OBSERVATION_NUM - 1 THEN 0 ELSE observation_index + 1
    IN
    IF delta_token_0_price_x32 = NONE \/ delta_token_1_price_x32 = NONE
    THEN [err |-> "MathOverflow", state |-> self]
    ELSE [err |-> "Ok",
          state |-> [self EXCEPT
              !.observations[next_observation_index] =
                  [block_timestamp |-> block_timestamp,
                   cumulative_token_0_price_x32 |->
                       wrapping_add(last_observation.cumulative_token_0_price_x32,
                                    delta_token_0_price_x32, U128_MAX),
                   cumulative_token_1_price_x32 |->
                       wrapping_add(last_observation.cumulative_token_1_price_x32,
                                    delta_token_1_price_x32, U128_MAX)],
              !.observation_index = next_observation_index]]

(***************************************************************************)
(* swap_base_output (swap_base_output.rs), in the order of its statements. *)
(* c is the handler's frame: its inputs, its locals, the account buffers   *)
(* it writes in place (c.pool, c.obs), the balances as the transfers it    *)
(* requested left them (c.bal), the transfers, the events and the steps    *)
(* so far.  c.err is "" while it runs; a stage that finds c.err set has    *)
(* been skipped by the early return, and c.pc is the source line of the    *)
(* statement that returned.                                                *)
(***************************************************************************)
\* the early return of error e by the statement at source line pc
Fail(c, e, pc) == [c EXCEPT !.err = e, !.pc = pc]

InputMintIndex(input_vault) == IF input_vault = "vault_1" THEN 1 ELSE 0
TokenAccount(owner, i) ==
    IF owner = "user" THEN (IF i = 0 THEN "user_0" ELSE "user_1")
    ELSE IF owner = "vault" THEN (IF i = 0 THEN "vault_0" ELSE "vault_1")
    ELSE (IF i = 0 THEN "referrer_0" ELSE "referrer_1")

Frame(p, obs, bal, cfg, mts, clk, inp) ==
    [inp |-> inp, err |-> "", pc |-> 0, calc_err |-> "",
     pool0 |-> p, bal0 |-> bal,
     pool |-> p, obs |-> obs, bal |-> bal, cfg |-> cfg, clock |-> clk,
     input_mint |-> IF InputMintIndex(inp.input_vault) = 0 THEN mts.mint_0 ELSE mts.mint_1,
     output_mint |-> IF InputMintIndex(inp.input_vault) = 0 THEN mts.mint_1 ELSE mts.mint_0,
     xfers |-> <<>>, events |-> <<>>, trace |-> <<>>,
     block_timestamp |-> 0,
     token_0_price_x64_before_swap |-> 0, token_1_price_x64_before_swap |-> 0,
     out_transfer_fee |-> 0, actual_amount_out |-> 0,
     trade_direction |-> "", total_input_token_amount |-> 0,
     total_output_token_amount |-> 0, constant_before |-> 0,
     result |-> NoResult, constant_after |-> 0,
     input_transfer_amount |-> 0, input_transfer_fee |-> 0,
     destination_amount_swapped |-> 0, output_transfer_amount |-> 0,
     output_transfer_fee |-> 0,
     protocol_fee |-> 0, fund_fee |-> 0, dynamic_fee |-> 0,
     source_amount_swapped |-> 0,
     referral_amount |-> 0, referral_transfer_fee |-> 0, referral_paid |-> FALSE,
     obs_written |-> FALSE]

\* faulty variant: the gate opens only after open_time
Approved_After(pool_state, block_timestamp) ==
    ~(~get_status_by_bit_Swap(pool_state) \/ block_timestamp <= pool_state.open_time)

\* lines 26-27: the condition under which the gate does not return NotApproved
Approved(pool_state, block_timestamp) ==
    ~(~get_status_by_bit_Swap(pool_state) \/ block_timestamp < pool_state.open_time)

\* lines 23-30
Validate(c) ==
    LET block_timestamp == c.clock.unix_timestamp IN
    IF ~Approved(c.pool, block_timestamp)
    THEN Fail([c EXCEPT !.block_timestamp = block_timestamp], "NotApproved", 29)
    ELSE [c EXCEPT !.block_timestamp = block_timestamp]

\* lines 32-43
PricesBeforeSwap(c) ==
    IF c.err # "" THEN c
    ELSE IF (c.inp.input_vault = c.pool.token_0_vault
                /\ c.inp.output_vault = c.pool.token_1_vault)
            \/ (c.inp.input_vault = c.pool.token_1_vault
                /\ c.inp.output_vault = c.pool.token_0_vault)
    THEN LET prices == token_price_x32(c.pool) IN
         IF prices[1] = NONE THEN Fail(c, "TokenPriceError", 36)
         ELSE [c EXCEPT !.token_0_price_x64_before_swap = prices[1],
                        !.token_1_price_x64_before_swap = prices[2]]
    ELSE Fail(c, "InvalidVault", 42)

\* faulty variant: the output mint's transfer fee is not added to the amount taken out
ActualAmountOut_NoFee(c) ==
    IF c.err # "" THEN c
    ELSE [c EXCEPT !.out_transfer_fee =
                       get_transfer_inverse_fee(c.output_mint, c.inp.amount_out_less_fee),
                   !.actual_amount_out = c.inp.amount_out_less_fee]

\* lines 45-51
ActualAmountOut(c) ==
    IF c.err # "" THEN c
    ELSE LET out_transfer_fee ==
                 get_transfer_inverse_fee(c.output_mint, c.inp.amount_out_less_fee)
             actual_amount_out ==
                 checked_add(c.inp.amount_out_less_fee, out_transfer_fee, U64_MAX)
         IN  IF actual_amount_out = NONE THEN Fail(c, "MathOverflow", 51)
             ELSE [c EXCEPT !.out_transfer_fee = out_transfer_fee,
                            !.actual_amount_out = actual_amount_out]

\* faulty variant: the reserves are taken as (token 0, token 1) in both orientations
TradeDirectionOf_Unswapped(pool_state, input_vault, output_vault) ==
    LET amounts == vault_amount_without_fee(pool_state) IN
    IF input_vault = pool_state.token_0_vault /\ output_vault = pool_state.token_1_vault
    THEN <<"ZeroForOne", amounts[1], amounts[2]>>
    ELSE IF input_vault = pool_state.token_1_vault
            /\ output_vault = pool_state.token_0_vault
    THEN <<"OneForZero", amounts[1], amounts[2]>>
    ELSE <<"", 0, 0>>

\* lines 54-79: (trade_direction, total_input_token_amount,
\* total_output_token_amount); a direction of "" is the return of InvalidVault
TradeDirectionOf(pool_state, input_vault, output_vault) ==
    LET amounts == vault_amount_without_fee(pool_state) IN
    IF input_vault = pool_state.token_0_vault /\ output_vault = pool_state.token_1_vault
    THEN <<"ZeroForOne", amounts[1], amounts[2]>>
    ELSE IF input_vault = pool_state.token_1_vault
            /\ output_vault = pool_state.token_0_vault
    THEN <<"OneForZero", amounts[2], amounts[1]>>
    ELSE <<"", 0, 0>>

\* lines 54-82
ResolveDirection(c) ==
    IF c.err # "" THEN c
    ELSE LET d == TradeDirectionOf(c.pool, c.inp.input_vault, c.inp.output_vault)
             constant_before == checked_mul(d[2], d[3], U128_MAX)
         IN  IF d[1] = "" THEN Fail(c, "InvalidVault", 78)
             ELSE IF constant_before = NONE THEN Fail(c, "MathOverflow", 82)
             ELSE [c EXCEPT !.trade_direction = d[1],
                            !.total_input_token_amount = d[2],
                            !.total_output_token_amount = d[3],
                            !.constant_before = constant_before]

\* lines 99-120
ComputeCurve(c) ==
    IF c.err # "" THEN c
    ELSE LET res == OffContract(
                        CurveCalculator_swap_base_output(
                            c.actual_amount_out, c.total_input_token_amount,
                            c.total_output_token_amount, c.cfg, c.inp.fee_rate),
                        c.inp.fault)
             result == res.value
             less_fee == checked_sub(result.new_swap_source_amount, result.dynamic_fee)
             constant_after ==
                 IF less_fee = NONE THEN NONE
                 ELSE checked_mul(less_fee, result.new_swap_destination_amount, U128_MAX)
         IN  IF res.err # "Ok"
             THEN Fail([c EXCEPT !.calc_err = res.err], "ZeroTradingTokens", 110)
             ELSE IF less_fee = NONE
             THEN Fail([c EXCEPT !.result = result], "MathOverflow", 117)
             ELSE IF constant_after = NONE
             THEN Fail([c EXCEPT !.result = result], "MathOverflow", 120)
             ELSE [c EXCEPT !.result = result, !.constant_after = constant_after]

\* faulty variant: the bound on the input is not enforced
SlippageRespected_Always(max_amount_in, input_transfer_amount) == TRUE

\* lines 146-150: require_gte!(max_amount_in, input_transfer_amount, ExceededSlippage)
SlippageRespected(max_amount_in, input_transfer_amount) ==
    max_amount_in >= input_transfer_amount

\* lines 133-165
NarrowResult(c) ==
    IF c.err # "" THEN c
    ELSE LET source_amount_swapped == try_from_u64(c.result.source_amount_swapped)
             transfer_fee == get_transfer_inverse_fee(c.input_mint, source_amount_swapped)
             input_transfer_amount ==
                 checked_add(source_amount_swapped, transfer_fee, U64_MAX)
             destination_amount_swapped ==
                 try_from_u64(c.result.destination_amount_swapped)
             protocol_fee == try_from_u64(c.result.protocol_fee)
             fund_fee == try_from_u64(c.result.fund_fee)
             dynamic_fee == try_from_u64(c.result.dynamic_fee)
         IN  IF source_amount_swapped = NONE THEN Fail(c, "MathOverflow", 136)
             ELSE IF ~(source_amount_swapped > 0) THEN Fail(c, "RequireGtViolated", 138)
             ELSE IF input_transfer_amount = NONE THEN Fail(c, "MathOverflow", 145)
             ELSE IF ~SlippageRespected(c.inp.max_amount_in, input_transfer_amount)
             THEN Fail(c, "ExceededSlippage", 146)
             ELSE IF destination_amount_swapped = NONE THEN Fail(c, "MathOverflow", 155)
             ELSE IF destination_amount_swapped # c.actual_amount_out
             THEN Fail(c, "RequireEqViolated", 157)
             ELSE IF protocol_fee = NONE THEN Fail(c, "MathOverflow", 160)
             ELSE IF fund_fee = NONE THEN Fail(c, "MathOverflow", 161)
             ELSE IF dynamic_fee = NONE THEN Fail(c, "MathOverflow", 162)
             ELSE [c EXCEPT !.input_transfer_amount = input_transfer_amount,
                            !.input_transfer_fee = transfer_fee,
                            !.destination_amount_swapped = destination_amount_swapped,
                            !.output_transfer_amount = c.actual_amount_out,
                            !.output_transfer_fee = c.out_transfer_fee,
                            !.protocol_fee = protocol_fee,
                            !.fund_fee = fund_fee,
                            !.dynamic_fee = dynamic_fee,
                            !.source_amount_swapped = source_amount_swapped]

\* faulty variant: a referral is paid whenever its amount is not zero
ReferralDue_NonZero(referral_amount, referral_transfer_fee) == referral_amount # 0

\* line 182
ReferralDue(referral_amount, referral_transfer_fee) ==
    referral_amount # 0 /\ referral_transfer_fee < referral_amount

\* faulty variant: the referral is paid on top of the transfer to the vault
ReferralPayout_OnTop(c) ==
    IF c.err # "" THEN c
    ELSE IF ~c.inp.referral_info.some THEN c
    ELSE
    LET info == c.inp.referral_info
        product == checked_mul(
                       saturating_sub(saturating_sub(c.dynamic_fee, c.protocol_fee),
                                      c.fund_fee),
                       info.share_bps, U64_MAX)
        referral_amount == product \div 10000
        referral_transfer_fee == get_transfer_fee(c.input_mint, referral_amount)
        dynamic_fee == checked_sub(c.dynamic_fee, referral_amount)
        input_transfer_amount == checked_sub(c.input_transfer_amount, referral_amount)
        source_amount_swapped == checked_sub(c.source_amount_swapped, referral_amount)
        i == InputMintIndex(c.inp.input_vault)
        paid == transfer_checked(c.bal, TokenAccount("user", i),
                                 TokenAccount("referrer", i), c.input_mint,
                                 referral_amount)
    IN
    IF product = NONE THEN Fail(c, "MathOverflow", 172)
    ELSE IF ReferralDue(referral_amount, referral_transfer_fee)
    THEN IF dynamic_fee = NONE \/ input_transfer_amount = NONE
            \/ source_amount_swapped = NONE
         THEN Fail([c EXCEPT !.referral_amount = referral_amount,
                             !.referral_transfer_fee = referral_transfer_fee],
                   "MathError", 186)
         ELSE LET d == [c EXCEPT
                          !.referral_amount = referral_amount,
                          !.referral_transfer_fee = referral_transfer_fee,
                          !.dynamic_fee = dynamic_fee,
                          !.source_amount_swapped = source_amount_swapped,
                          !.xfers = Append(@,
                              [kind |-> "referral", from |-> TokenAccount("user", i),
                               to |-> TokenAccount("referrer", i),
                               amount |-> referral_amount]),
                          !.trace = Append(@, "referral_transfer")]
              IN  IF ~paid.ok THEN Fail(d, "TokenError", 206)
                  ELSE [d EXCEPT !.bal = paid.bal, !.referral_paid = TRUE]
    ELSE [c EXCEPT !.referral_amount = referral_amount,
                   !.referral_transfer_fee = referral_transfer_fee]

\* lines 167-208
ReferralPayout(c) ==
    IF c.err # "" THEN c
    ELSE IF ~c.inp.referral_info.some THEN c
    ELSE
    LET info == c.inp.referral_info
        product == checked_mul(
                       saturating_sub(saturating_sub(c.dynamic_fee, c.protocol_fee),
                                      c.fund_fee),
                       info.share_bps, U64_MAX)
        referral_amount == product \div 10000
        referral_transfer_fee == get_transfer_fee(c.input_mint, referral_amount)
        dynamic_fee == checked_sub(c.dynamic_fee, referral_amount)
        input_transfer_amount == checked_sub(c.input_transfer_amount, referral_amount)
        source_amount_swapped == checked_sub(c.source_amount_swapped, referral_amount)
        i == InputMintIndex(c.inp.input_vault)
        paid == transfer_checked(c.bal, TokenAccount("user", i),
                                 TokenAccount("referrer", i), c.input_mint,
                                 referral_amount)
    IN
    IF product = NONE THEN Fail(c, "MathOverflow", 172)
    ELSE IF ReferralDue(referral_amount, referral_transfer_fee)
    THEN IF dynamic_fee = NONE \/ input_transfer_amount = NONE
            \/ source_amount_swapped = NONE
         THEN Fail([c EXCEPT !.referral_amount = referral_amount,
                             !.referral_transfer_fee = referral_transfer_fee],
                   "MathError", 186)
         ELSE LET d == [c EXCEPT
                          !.referral_amount = referral_amount,
                          !.referral_transfer_fee = referral_transfer_fee,
                          !.dynamic_fee = dynamic_fee,
                          !.input_transfer_amount = input_transfer_amount,
                          !.source_amount_swapped = source_amount_swapped,
                          !.xfers = Append(@,
                              [kind |-> "referral", from |-> TokenAccount("user", i),
                               to |-> TokenAccount("referrer", i),
                               amount |-> referral_amount]),
                          !.trace = Append(@, "referral_transfer")]
              IN  IF ~paid.ok THEN Fail(d, "TokenError", 206)
                  ELSE [d EXCEPT !.bal = paid.bal, !.referral_paid = TRUE]
    ELSE [c EXCEPT !.referral_amount = referral_amount,
                   !.referral_transfer_fee = referral_transfer_fee]

\* faulty variant: a partner's fee is rounded up
RECURSIVE PartnersLoop_RoundUp(_, _, _, _, _)
PartnersLoop_RoundUp(partners, i, lp_supply, protocol_fee, trade_direction) ==
    IF i > Len(partners) THEN [err |-> "", pc |-> 0, partners |-> partners]
    ELSE
    LET partner == partners[i]
        decimal_number == 100000
        scaled == checked_mul(partner.lp_token_linked_with_partner, decimal_number,
                              U64_MAX)
        tvl_share == IF scaled = NONE THEN NONE ELSE checked_div(scaled, lp_supply)
        fee_share == IF tvl_share = NONE THEN NONE
                     ELSE checked_mul(protocol_fee, tvl_share, U64_MAX)
        partner_fee == IF fee_share = NONE THEN NONE
                       ELSE checked_div(fee_share + decimal_number - 1, decimal_number)
        total == IF partner_fee = NONE THEN NONE
                 ELSE IF trade_direction = "ZeroForOne"
                 THEN checked_add(partner.cumulative_fee_total_times_tvl_share_token_0,
                                  partner_fee, U64_MAX)
                 ELSE checked_add(partner.cumulative_fee_total_times_tvl_share_token_1,
                                  partner_fee, U64_MAX)
    IN
    IF total = NONE
    THEN [err |-> "MathOverflow",
          pc |-> IF scaled = NONE THEN 218 ELSE IF tvl_share = NONE THEN 220
                 ELSE IF fee_share = NONE THEN 224 ELSE IF partner_fee = NONE THEN 226
                 ELSE IF trade_direction = "ZeroForOne" THEN 233 ELSE 239,
          partners |-> partners]
    ELSE PartnersLoop_RoundUp(
             [partners EXCEPT ![i] =
                 IF trade_direction = "ZeroForOne"
                 THEN [@ EXCEPT !.cumulative_fee_total_times_tvl_share_token_0 = total]
                 ELSE [@ EXCEPT !.cumulative_fee_total_times_tvl_share_token_1 = total]],
             i + 1, lp_supply, protocol_fee, trade_direction)

\* lines 212-242: the loop over the local copy of the partners, from entry i on
RECURSIVE PartnersLoop(_, _, _, _, _)
PartnersLoop(partners, i, lp_supply, protocol_fee, trade_direction) ==
    IF i > Len(partners) THEN [err |-> "", pc |-> 0, partners |-> partners]
    ELSE
    LET partner == partners[i]
        decimal_number == 100000
        scaled == checked_mul(partner.lp_token_linked_with_partner, decimal_number,
                              U64_MAX)
        tvl_share == IF scaled = NONE THEN NONE ELSE checked_div(scaled, lp_supply)
        fee_share == IF tvl_share = NONE THEN NONE
                     ELSE checked_mul(protocol_fee, tvl_share, U64_MAX)
        partner_fee == IF fee_share = NONE THEN NONE
                       ELSE checked_div(fee_share, decimal_number)
        total == IF partner_fee = NONE THEN NONE
                 ELSE IF trade_direction = "ZeroForOne"
                 THEN checked_add(partner.cumulative_fee_total_times_tvl_share_token_0,
                                  partner_fee, U64_MAX)
                 ELSE checked_add(partner.cumulative_fee_total_times_tvl_share_token_1,
                                  partner_fee, U64_MAX)
    IN
    IF total = NONE
    THEN [err |-> "MathOverflow",
          pc |-> IF scaled = NONE THEN 218 ELSE IF tvl_share = NONE THEN 220
                 ELSE IF fee_share = NONE THEN 224 ELSE IF partner_fee = NONE THEN 226
                 ELSE IF trade_direction = "ZeroForOne" THEN 233 ELSE 239,
          partners |-> partners]
    ELSE PartnersLoop(
             [partners EXCEPT ![i] =
                 IF trade_direction = "ZeroForOne"
                 THEN [@ EXCEPT !.cumulative_fee_total_times_tvl_share_token_0 = total]
                 ELSE [@ EXCEPT !.cumulative_fee_total_times_tvl_share_token_1 = total]],
             i + 1, lp_supply, protocol_fee, trade_direction)

\* faulty variant: the partners' local copy is not stored back in the pool
PartnerFees_Unwritten(c) ==
    IF c.err # "" THEN c
    ELSE LET r == PartnersLoop(c.pool.partners, 1, c.pool.lp_supply, c.protocol_fee,
                               c.trade_direction)
         IN  IF r.err # "" THEN Fail(c, r.err, r.pc)
             ELSE [c EXCEPT !.trace = Append(@, "partners_write")]

\* lines 210-243
PartnerFees(c) ==
    IF c.err # "" THEN c
    ELSE LET r == PartnersLoop(c.pool.partners, 1, c.pool.lp_supply, c.protocol_fee,
                               c.trade_direction)
         IN  IF r.err # "" THEN Fail(c, r.err, r.pc)
             ELSE [c EXCEPT !.pool.partners = r.partners,
                            !.trace = Append(@, "partners_write")]

\* one checked write of a pool field, at source line pc: r is [err, pc, pool];
\* v = NONE is the failed `?`
Put(r, f, v, pc) ==
    IF r.err # "" THEN r
    ELSE IF v = NONE THEN [r EXCEPT !.err = "MathOverflow", !.pc = pc]
    ELSE [r EXCEPT !.pool[f] = v]

\* faulty variant: every counter is taken from the token 0 side
PoolField_Token0(name, i) ==
    CASE name = "protocol_fees" -> "protocol_fees_token_0"
      [] name = "fund_fees" -> "fund_fees_token_0"
      [] name = "cumulative_trade_fees" -> "cumulative_trade_fees_token_0"
      [] name = "cumulative_volume" -> "cumulative_volume_token_0"
      [] OTHER -> "token_0_vault_amount"

\* lines 245-310: the pool field a match arm writes (i = 0: the token 0 side)
PoolField(name, i) ==
    CASE name = "protocol_fees" ->
            (IF i = 0 THEN "protocol_fees_token_0" ELSE "protocol_fees_token_1")
      [] name = "fund_fees" ->
            (IF i = 0 THEN "fund_fees_token_0" ELSE "fund_fees_token_1")
      [] name = "cumulative_trade_fees" ->
            (IF i = 0 THEN "cumulative_trade_fees_token_0"
                      ELSE "cumulative_trade_fees_token_1")
      [] name = "cumulative_volume" ->
            (IF i = 0 THEN "cumulative_volume_token_0" ELSE "cumulative_volume_token_1")
      [] OTHER -> (IF i = 0 THEN "token_0_vault_amount" ELSE "token_1_vault_amount")

\* faulty variant: the trade fee is taken out of the stored input reserve as well
PoolCounters_LessTradeFee(c) ==
    IF c.err # "" THEN c
    ELSE
    LET i == IF c.trade_direction = "ZeroForOne" THEN 0 ELSE 1
        o == 1 - i
        p == c.pool
        added == checked_add(p[PoolField("vault_amount", i)], c.source_amount_swapped,
                             U64_MAX)
        less_fund == IF added = NONE THEN NONE
                     ELSE checked_sub(added, c.fund_fee + c.result.dynamic_fee)
        less_protocol == IF less_fund = NONE THEN NONE
                         ELSE checked_sub(less_fund, c.protocol_fee)
        arm == IF i = 0 THEN 0 ELSE 32   \* the second match arm starts 32 lines on
        r1 == Put([err |-> "", pc |-> 0, pool |-> p], PoolField("protocol_fees", i),
                  checked_add(p[PoolField("protocol_fees", i)], c.protocol_fee, U64_MAX),
                  250 + arm)
        r2 == Put(r1, PoolField("fund_fees", i),
                  checked_add(p[PoolField("fund_fees", i)], c.fund_fee, U64_MAX),
                  254 + arm)
        r3 == Put(r2, PoolField("cumulative_trade_fees", i),
                  checked_add(p[PoolField("cumulative_trade_fees", i)], c.dynamic_fee,
                              U128_MAX),
                  258 + arm)
        r4 == Put(r3, PoolField("cumulative_volume", i),
                  checked_add(p[PoolField("cumulative_volume", i)],
                              c.source_amount_swapped, U128_MAX),
                  262 + arm)
        r5 == Put(r4, PoolField("vault_amount", i), less_protocol,
                  (IF added = NONE THEN 267 ELSE IF less_fund = NONE THEN 269 ELSE 271)
                      + arm)
        r6 == Put(r5, PoolField("vault_amount", o),
                  checked_sub(p[PoolField("vault_amount", o)], c.output_transfer_amount),
                  276 + arm)
        written == [c EXCEPT !.pool = r6.pool,
                             !.trace = IF r6.pool = p THEN @ ELSE Append(@, "pool_write")]
    IN
    IF r6.err # "" THEN Fail(written, r6.err, r6.pc)
    ELSE [c EXCEPT !.pool = [r6.pool EXCEPT
                                !.latest_dynamic_fee_rate = c.result.dynamic_fee_rate],
                   !.trace = Append(@, "pool_write")]

\* lines 245-311: the writes of one match arm, in order, each behind its `?`
PoolCounters(c) ==
    IF c.err # "" THEN c
    ELSE
    LET i == IF c.trade_direction = "ZeroForOne" THEN 0 ELSE 1
        o == 1 - i
        p == c.pool
        added == checked_add(p[PoolField("vault_amount", i)], c.source_amount_swapped,
                             U64_MAX)
        less_fund == IF added = NONE THEN NONE ELSE checked_sub(added, c.fund_fee)
        less_protocol == IF less_fund = NONE THEN NONE
                         ELSE checked_sub(less_fund, c.protocol_fee)
        arm == IF i = 0 THEN 0 ELSE 32   \* the second match arm starts 32 lines on
        r1 == Put([err |-> "", pc |-> 0, pool |-> p], PoolField("protocol_fees", i),
                  checked_add(p[PoolField("protocol_fees", i)], c.protocol_fee, U64_MAX),
                  250 + arm)
        r2 == Put(r1, PoolField("fund_fees", i),
                  checked_add(p[PoolField("fund_fees", i)], c.fund_fee, U64_MAX),
                  254 + arm)
        r3 == Put(r2, PoolField("cumulative_trade_fees", i),
                  checked_add(p[PoolField("cumulative_trade_fees", i)], c.dynamic_fee,
                              U128_MAX),
                  258 + arm)
        r4 == Put(r3, PoolField("cumulative_volume", i),
                  checked_add(p[PoolField("cumulative_volume", i)],
                              c.source_amount_swapped, U128_MAX),
                  262 + arm)
        r5 == Put(r4, PoolField("vault_amount", i), less_protocol,
                  (IF added = NONE THEN 267 ELSE IF less_fund = NONE THEN 269 ELSE 271)
                      + arm)
        r6 == Put(r5, PoolField("vault_amount", o),
                  checked_sub(p[PoolField("vault_amount", o)], c.output_transfer_amount),
                  276 + arm)
        written == [c EXCEPT !.pool = r6.pool,
                             !.trace = IF r6.pool = p THEN @ ELSE Append(@, "pool_write")]
    IN
    IF r6.err # "" THEN Fail(written, r6.err, r6.pc)
    ELSE [c EXCEPT !.pool = [r6.pool EXCEPT
                                !.latest_dynamic_fee_rate = c.result.dynamic_fee_rate],
                   !.trace = Append(@, "pool_write")]

\* lines 313-329
EmitSwapEvent(c) ==
    [c EXCEPT
        !.events = Append(@,
            [input_vault_before |-> c.total_input_token_amount,
             output_vault_before |-> c.total_output_token_amount,
             input_amount |-> c.result.source_amount_swapped,
             output_amount |-> c.result.destination_amount_swapped,
             input_transfer_fee |-> c.input_transfer_fee,
             output_transfer_fee |-> c.output_transfer_fee,
             base_input |-> FALSE,
             dynamic_fee |-> c.result.dynamic_fee]),
        !.trace = Append(@, "emit")]

\* faulty variant: the event is emitted and the constant-product check is left out
EmitAndCheckInvariant_Unchecked(c) ==
    IF c.err # "" THEN c
    ELSE [EmitSwapEvent(c) EXCEPT !.trace = Append(@, "check_invariant")]

\* lines 313-330
EmitAndCheckInvariant(c) ==
    IF c.err # "" THEN c
    ELSE IF ~(c.constant_after >= c.constant_before)
    THEN Fail(EmitSwapEvent(c), "RequireGteViolated", 330)
    ELSE [EmitSwapEvent(c) EXCEPT !.trace = Append(@, "check_invariant")]

\* faulty variant: the vault is sent the curve's source amount, the referral included
VaultTransfers_CurveSource(c) ==
    IF c.err # "" THEN c
    ELSE
    LET i == InputMintIndex(c.inp.input_vault)
        o == 1 - i
        t_in == [kind |-> "user_to_vault", from |-> TokenAccount("user", i),
                 to |-> TokenAccount("vault", i), amount |-> c.result.source_amount_swapped]
        t_out == [kind |-> "vault_to_user", from |-> TokenAccount("vault", o),
                  to |-> TokenAccount("user", o), amount |-> c.output_transfer_amount]
        bal_in == transfer_checked(c.bal, t_in.from, t_in.to, c.input_mint, t_in.amount)
        bal_out == transfer_checked(bal_in.bal, t_out.from, t_out.to, c.output_mint,
                                    t_out.amount)
        c_in == [c EXCEPT !.xfers = Append(@, t_in),
                          !.trace = Append(@, "transfer_in")]
        c_out == [c_in EXCEPT !.bal = bal_in.bal, !.xfers = Append(@, t_out),
                              !.trace = Append(@, "transfer_out")]
    IN
    IF ~bal_in.ok THEN Fail(c_in, "TokenError", 340)
    ELSE IF ~bal_out.ok THEN Fail(c_out, "TokenError", 351)
    ELSE [c_out EXCEPT !.bal = bal_out.bal]

\* faulty variant: the vault pays the trader before the trader pays the vault
VaultTransfers_OutFirst(c) ==
    IF c.err # "" THEN c
    ELSE
    LET i == InputMintIndex(c.inp.input_vault)
        o == 1 - i
        t_in == [kind |-> "user_to_vault", from |-> TokenAccount("user", i),
                 to |-> TokenAccount("vault", i), amount |-> c.input_transfer_amount]
        t_out == [kind |-> "vault_to_user", from |-> TokenAccount("vault", o),
                  to |-> TokenAccount("user", o), amount |-> c.output_transfer_amount]
        bal_out == transfer_checked(c.bal, t_out.from, t_out.to, c.output_mint,
                                    t_out.amount)
        bal_in == transfer_checked(bal_out.bal, t_in.from, t_in.to, c.input_mint,
                                   t_in.amount)
        c_out == [c EXCEPT !.xfers = Append(@, t_out),
                           !.trace = Append(@, "transfer_out")]
        c_in == [c_out EXCEPT !.bal = bal_out.bal, !.xfers = Append(@, t_in),
                              !.trace = Append(@, "transfer_in")]
    IN
    IF ~bal_out.ok THEN Fail(c_out, "TokenError", 351)
    ELSE IF ~bal_in.ok THEN Fail(c_in, "TokenError", 340)
    ELSE [c_in EXCEPT !.bal = bal_in.bal]


\* lines 332-351
VaultTransfers(c) ==
    IF c.err # "" THEN c
    ELSE
    LET i == InputMintIndex(c.inp.input_vault)
        o == 1 - i
        t_in == [kind |-> "user_to_vault", from |-> TokenAccount("user", i),
                 to |-> TokenAccount("vault", i), amount |-> c.input_transfer_amount]
        t_out == [kind |-> "vault_to_user", from |-> TokenAccount("vault", o),
                  to |-> TokenAccount("user", o), amount |-> c.output_transfer_amount]
        bal_in == transfer_checked(c.bal, t_in.from, t_in.to, c.input_mint, t_in.amount)
        bal_out == transfer_checked(bal_in.bal, t_out.from, t_out.to, c.output_mint,
                                    t_out.amount)
        c_in == [c EXCEPT !.xfers = Append(@, t_in),
                          !.trace = Append(@, "transfer_in")]
        c_out == [c_in EXCEPT !.bal = bal_in.bal, !.xfers = Append(@, t_out),
                              !.trace = Append(@, "transfer_out")]
    IN
    IF ~bal_in.ok THEN Fail(c_in, "TokenError", 340)
    ELSE IF ~bal_out.ok THEN Fail(c_out, "TokenError", 351)
    ELSE [c_out EXCEPT !.bal = bal_out.bal]

\* faulty variant: the oracle is given the prices of the pool as the swap left it
UpdateOracle_PricesAfter(c) ==
    IF c.err # "" THEN c
    ELSE LET u == ObservationState_update(c.obs, c.clock.unix_timestamp,
                                          token_price_x32(c.pool)[1],
                                          token_price_x32(c.pool)[2])
         IN  IF u.err # "Ok" THEN Fail(c, u.err, 357)
             ELSE [c EXCEPT !.obs = u.state,
                            !.obs_written = (u.state # c.obs),
                            !.pool.recent_epoch = c.clock.epoch,
                            !.trace = Append(@, "oracle_update"),
                            !.err = "Ok", !.pc = 360]

\* lines 353-360
UpdateOracle(c) ==
    IF c.err # "" THEN c
    ELSE LET u == ObservationState_update(c.obs, c.clock.unix_timestamp,
                                          c.token_0_price_x64_before_swap,
                                          c.token_1_price_x64_before_swap)
         IN  IF u.err # "Ok" THEN Fail(c, u.err, 357)
             ELSE [c EXCEPT !.obs = u.state,
                            !.obs_written = (u.state # c.obs),
                            !.pool.recent_epoch = c.clock.epoch,
                            !.trace = Append(@, "oracle_update"),
                            !.err = "Ok", !.pc = 360]

\* lines 11-361
swap_base_output(p, obs, bal, cfg, mts, clk, inp) ==
    UpdateOracle(VaultTransfers(EmitAndCheckInvariant(PoolCounters(PartnerFees(
        ReferralPayout(NarrowResult(ComputeCurve(ResolveDirection(ActualAmountOut(
            PricesBeforeSwap(Validate(Frame(p, obs, bal, cfg, mts, clk, inp)))))))))))))

(***************************************************************************)
(* The host's transaction: the ledger takes the instruction's account      *)
(* writes and the transfers it requested when it returns Ok, and discards  *)
(* them all when it returns an error (specification, section 5).           *)
(***************************************************************************)
\* faulty variant: the ledger keeps what a failed instruction wrote
Commit_Eager(before, after, err) == after

Commit(before, after, err) == IF err = "Ok" THEN after ELSE before

\* what is kept of a finished handler's frame: all but the oracle buffer, which
\* observation_state holds once committed (obs_written tells whether it was written)
Outcome(c) == [f \in (DOMAIN c) \ {"obs"} |-> c[f]]

(***************************************************************************)
(* Initial states: pools as initialization and earlier swaps leave them    *)
(***************************************************************************)
NoFeeMint == [transfer_fee_basis_points |-> 0, maximum_fee |-> 0]
FeeMint == [transfer_fee_basis_points |-> 1000, maximum_fee |-> 50]

Partner(lp) ==
    [lp_token_linked_with_partner |-> lp,
     cumulative_fee_total_times_tvl_share_token_0 |-> 0,
     cumulative_fee_total_times_tvl_share_token_1 |-> 0]

PoolFresh ==
    [swap_enabled |-> TRUE, open_time |-> 1,
     token_0_vault |-> "vault_0", token_1_vault |-> "vault_1",
     token_0_vault_amount |-> 1000, token_1_vault_amount |-> 2000,
     protocol_fees_token_0 |-> 0, protocol_fees_token_1 |-> 0,
     fund_fees_token_0 |-> 0, fund_fees_token_1 |-> 0,
     cumulative_trade_fees_token_0 |-> 0, cumulative_trade_fees_token_1 |-> 0,
     cumulative_volume_token_0 |-> 0, cumulative_volume_token_1 |-> 0,
     lp_supply |-> 10, partners |-> <<Partner(4), Partner(6)>>,
     latest_dynamic_fee_rate |-> 0, recent_epoch |-> 0]

PoolTraded ==
    [PoolFresh EXCEPT
        !.protocol_fees_token_0 = 7, !.protocol_fees_token_1 = 3,
        !.fund_fees_token_0 = 2, !.fund_fees_token_1 = 1,
        !.cumulative_trade_fees_token_0 = 40, !.cumulative_trade_fees_token_1 = 20,
        !.cumulative_volume_token_0 = 900, !.cumulative_volume_token_1 = 400,
        !.partners = <<Partner(3)>>, !.latest_dynamic_fee_rate = 25]

ObservedAtZero == [ObservationState_default EXCEPT !.initialized = TRUE]

Wallet(u0, u1, v0, v1) ==
    [user_0 |-> u0, user_1 |-> u1, vault_0 |-> v0, vault_1 |-> v1,
     referrer_0 |-> 0, referrer_1 |-> 0]

Config == [trade_fee_rate |-> 25, protocol_fee_rate |-> 2000, fund_fee_rate |-> 1000]

Scenarios ==
    { \* a fresh pool, fee-free mints
      [pool |-> PoolFresh, obs |-> ObservationState_default,
       bal |-> Wallet(5000, 5000, 1000, 2000),
       mints |-> [mint_0 |-> NoFeeMint, mint_1 |-> NoFeeMint]],
      \* a pool that has traded, both mints charging a transfer fee
      [pool |-> PoolTraded, obs |-> ObservedAtZero,
       bal |-> Wallet(5000, 5000, 1009, 2004),
       mints |-> [mint_0 |-> FeeMint, mint_1 |-> FeeMint]],
      \* swaps disabled
      [pool |-> [PoolFresh EXCEPT !.swap_enabled = FALSE],
       obs |-> ObservationState_default,
       bal |-> Wallet(5000, 5000, 1000, 2000),
       mints |-> [mint_0 |-> NoFeeMint, mint_1 |-> NoFeeMint]],
      \* no liquidity shares outstanding, and a partner share too large to scale
      [pool |-> [PoolFresh EXCEPT !.lp_supply = 0],
       obs |-> ObservationState_default,
       bal |-> Wallet(5000, 5000, 1000, 2000),
       mints |-> [mint_0 |-> NoFeeMint, mint_1 |-> NoFeeMint]],
      \* lopsided reserves: a price whose accumulation over a long gap overflows
      [pool |-> [PoolFresh EXCEPT !.token_0_vault_amount = 1,
                                  !.token_1_vault_amount = 3000,
                                  !.partners = <<>>],
       obs |-> ObservedAtZero,
       bal |-> Wallet(5000, 5000, 1, 3000),
       mints |-> [mint_0 |-> NoFeeMint, mint_1 |-> NoFeeMint]],
      \* a trader holding next to nothing
      [pool |-> PoolFresh, obs |-> ObservedAtZero,
       bal |-> Wallet(3, 20, 1000, 2000),
       mints |-> [mint_0 |-> NoFeeMint, mint_1 |-> NoFeeMint]] }

Clocks ==
    { [unix_timestamp |-> 0, epoch |-> 0], [unix_timestamp |-> 1, epoch |-> 0],
      [unix_timestamp |-> 500, epoch |-> 1] }

(***************************************************************************)
(* The requests a transaction may carry                                    *)
(***************************************************************************)
NoReferral == [some |-> FALSE, share_bps |-> 0]
Referral(bps) == [some |-> TRUE, share_bps |-> bps]

Request(iv, ov, out, max, ref, rate, fault) ==
    [input_vault |-> iv, output_vault |-> ov, amount_out_less_fee |-> out,
     max_amount_in |-> max, referral_info |-> ref, fee_rate |-> rate, fault |-> fault]

ValidPairs == { <<"vault_0", "vault_1">>, <<"vault_1", "vault_0">> }
BadPairs == { <<"vault_0", "vault_0">>, <<"vault_1", "vault_1">>,
              <<"other", "vault_1">>, <<"vault_0", "other">> }
Faults == { "dst_short", "k_low", "fee_over_src", "src_wide",
            "dst_wide", "protocol_wide", "fund_wide", "fee_wide" }

Requests ==
    \* trades that can settle: both directions, with and without a referral
    { Request(pr[1], pr[2], out, 3000, ref, rate, "none") :
        pr \in ValidPairs, out \in {10, 100},
        ref \in {NoReferral, Referral(5000)}, rate \in {25, 3000} }
    \* a bound on the input below, at and above what the curve asks for
    \cup { Request(pr[1], pr[2], out, 5, NoReferral, 25, "none") :
             pr \in ValidPairs, out \in {10, 100} }
    \cup { Request("vault_0", "vault_1", 10, max, ref, rate, "none") :
             max \in {6, 7}, ref \in {NoReferral, Referral(0), Referral(10000)},
             rate \in {0, 25} }
    \* nothing asked for, nearly all of the reserve, all of it and more
    \cup { Request(pr[1], pr[2], out, 3000, Referral(5000), 3000, "none") :
             pr \in ValidPairs, out \in {0, 999, 2000} }
    \cup { Request("vault_0", "vault_1", U64_MAX, 3000, NoReferral, 25, "none") }
    \cup { Request(pr[1], pr[2], 10, 3000, NoReferral, 25, "none") : pr \in BadPairs }
    \cup { Request("vault_0", "vault_1", 100, 3000, Referral(5000), 3000, f) :
             f \in Faults }

Init ==
    /\ \E s \in Scenarios :
        /\ pool = s.pool
        /\ observation_state = s.obs
        /\ balances = s.bal
        /\ mints = s.mints
        /\ last = Outcome(Frame(s.pool, s.obs, s.bal, Config, s.mints,
                                [unix_timestamp |-> 0, epoch |-> 0],
                                Request("", "", 0, 0, NoReferral, 0, "none")))
    /\ amm_config = Config
    /\ clock = [unix_timestamp |-> 0, epoch |-> 0]
    /\ swaps = 0

\* one swap_base_output transaction
Swap ==
    /\ swaps < MaxSwaps
    /\ \E inp \in Requests :
        LET c == swap_base_output(pool, observation_state, balances, amm_config,
                                  mints, clock, inp)
        IN  /\ pool' = Commit(pool, c.pool, c.err)
            /\ observation_state' = Commit(observation_state, c.obs, c.err)
            /\ balances' = Commit(balances, c.bal, c.err)
            /\ last' = Outcome(c)
    /\ swaps' = swaps + 1
    /\ UNCHANGED <<amm_config, mints, clock>>

\* time passes between transactions
Tick ==
    /\ swaps < MaxSwaps
    /\ \E t \in Clocks :
        /\ t.unix_timestamp > clock.unix_timestamp
        /\ clock' = t
    /\ UNCHANGED <<pool, observation_state, balances, amm_config, mints, swaps, last>>

Next == Swap \/ Tick

Spec == Init /\ [][Next]_vars

(***************************************************************************)
(* ObservationState::update on its own: an oracle as a run of updates left  *)
(* it, and up to MaxUpdates further calls with any of a few timestamps and  *)
(* prices, a timestamp behind the oracle's included.  Here observation_state*)
(* is the oracle, swaps counts the calls, clock holds the timestamp of the  *)
(* last call and last its record: the oracle before it (before), its        *)
(* arguments (now, p0, p1), its result (err), the timestamps written before *)
(* it (stamps), the current cumulative prices the run started from (start0, *)
(* start1) and the sum modulo 2^128 of price * elapsed time over the        *)
(* observations the run added (sum0, sum1).                                 *)
(***************************************************************************)
MaxUpdates == 2

\* the oracle after the calls of a sequence of <<now, price 0, price 1>>
RECURSIVE Replay(_, _)
Replay(state, calls) ==
    IF calls = <<>> THEN state
    ELSE IF Len(calls) = 1
    THEN ObservationState_update(state, calls[1][1], calls[1][2], calls[1][3]).state
    ELSE LET half == Len(calls) \div 2
             midway == Replay(state, SubSeq(calls, 1, half))
         IN  IF midway.initialized
             THEN Replay(midway, SubSeq(calls, half + 1, Len(calls)))
             ELSE midway

\* n updates of a price of one, a second apart
EverySecond(n) == [i \in 1 .. n |-> <<i, Q32, Q32>>]

\* a new oracle, and oracles after 1, 2 and 100 updates (the last with its index
\* at the end of the ring)
OracleStates ==
    { ObservationState_default,
      Replay(ObservationState_default, EverySecond(1)),
      Replay(ObservationState_default, EverySecond(2)),
      Replay(ObservationState_default, EverySecond(OBSERVATION_NUM)) }

OracleTimes == { 1, 2, 3, 700 }

\* prices of one, of three and a third, and the largest u128 for either token
\* (whose product with more than a second overflows)
OraclePrices ==
    { <<Q32, Q32>>, <<3 * Q32, Q32 \div 3>>, <<U128_MAX, 1>>, <<1, U128_MAX>> }

\* the current observation of an oracle
CurrentObservation(state) == state.observations[state.observation_index]

OracleInit ==
    /\ observation_state \in OracleStates
    /\ clock = [unix_timestamp |-> 0, epoch |-> 0]
    /\ swaps = 0
    /\ last = [before |-> observation_state, now |-> 0, p0 |-> 0, p1 |-> 0,
               err |-> "",
               stamps |-> IF observation_state.initialized
                          THEN { observation_state.observations[i].block_timestamp :
                                   i \in 0 .. observation_state.observation_index }
                          ELSE {},
               start0 |-> CurrentObservation(observation_state)
                              .cumulative_token_0_price_x32,
               start1 |-> CurrentObservation(observation_state)
                              .cumulative_token_1_price_x32,
               sum0 |-> 0, sum1 |-> 0]
    /\ pool = PoolFresh
    /\ balances = Wallet(0, 0, 0, 0)
    /\ amm_config = Config
    /\ mints = [mint_0 |-> NoFeeMint, mint_1 |-> NoFeeMint]

\* one call of update; an Err leaves the account as it was
OracleUpdate ==
    /\ swaps < MaxUpdates
    /\ \E now \in OracleTimes, price \in OraclePrices :
        LET u == ObservationState_update(observation_state, now, price[1], price[2])
            elapsed == now - CurrentObservation(observation_state).block_timestamp
            added == /\ observation_state.initialized
                     /\ elapsed > 0
                     /\ checked_mul(price[1], elapsed, U128_MAX) # NONE
                     /\ checked_mul(price[2], elapsed, U128_MAX) # NONE
        IN  /\ observation_state' = (IF u.err = "Ok" THEN u.state ELSE observation_state)
            /\ clock' = [unix_timestamp |-> now, epoch |-> 0]
            /\ last' = [last EXCEPT
                    !.before = observation_state,
                    !.now = now, !.p0 = price[1], !.p1 = price[2],
                    !.err = u.err,
                    !.stamps = IF observation_state # last.before
                               THEN @ \cup {last.now} ELSE @,
                    !.sum0 = IF added
                             THEN wrapping_add(@, price[1] * elapsed, U128_MAX) ELSE @,
                    !.sum1 = IF added
                             THEN wrapping_add(@, price[2] * elapsed, U128_MAX) ELSE @]
    /\ swaps' = swaps + 1
    /\ UNCHANGED <<pool, balances, amm_config, mints>>

OracleNext == OracleUpdate

OracleSpec == OracleInit /\ [][OracleNext]_vars

(***************************************************************************)
(* Properties                                                              *)
(***************************************************************************)
\* the vault pairing of the last request is one of the pool's two orientations
ValidPairing ==
    <<last.inp.input_vault, last.inp.output_vault>> \in
        { <<last.pool0.token_0_vault, last.pool0.token_1_vault>>,
          <<last.pool0.token_1_vault, last.pool0.token_0_vault>> }

\* the pool's recorded reserves before the last request, as (in, out) of its direction
ReserveInBefore ==
    IF last.inp.input_vault = last.pool0.token_0_vault
    THEN last.pool0.token_0_vault_amount ELSE last.pool0.token_1_vault_amount
ReserveOutBefore ==
    IF last.inp.input_vault = last.pool0.token_0_vault
    THEN last.pool0.token_1_vault_amount ELSE last.pool0.token_0_vault_amount

\* a * b >= k, for k within u128, without leaving TLC's integers
ProductAtLeast(a, b, k) ==
    IF a = 0 \/ b = 0 THEN k = 0
    ELSE IF a > U128_MAX \div b THEN TRUE ELSE a * b >= k

Requested(kind) == \E n \in 1 .. Len(last.xfers) : last.xfers[n].kind = kind

\* the constant-product inequality of the last request's curve result
ConstantProductKept ==
    /\ ValidPairing
    /\ last.result.new_swap_source_amount >= last.result.dynamic_fee
    /\ ProductAtLeast(last.result.new_swap_source_amount - last.result.dynamic_fee,
                      last.result.new_swap_destination_amount,
                      ReserveInBefore * ReserveOutBefore)

\* a swap_base_output has run
Called == last.err # ""

\* the handler that ended last wrote no account, asked for no transfer, and the
\* ledger holds what it held before the call
NothingDone ==
    /\ last.pool = last.pool0 /\ last.bal = last.bal0
    /\ last.xfers = <<>> /\ ~last.obs_written
    /\ pool = last.pool0 /\ balances = last.bal0

\* the pool's recorded reserve of the output side after the last request
ReserveOutAfter ==
    IF last.inp.input_vault = last.pool0.token_0_vault
    THEN last.pool.token_1_vault_amount ELSE last.pool.token_0_vault_amount

\* the trader's account of the input token
TraderInput(c) == TokenAccount("user", InputMintIndex(c.inp.input_vault))

\* the sum of the amounts of the transfers requested out of an account
RECURSIVE DebitedFrom(_, _)
DebitedFrom(xfers, account) ==
    IF xfers = <<>> THEN 0
    ELSE (IF Head(xfers).from = account THEN Head(xfers).amount ELSE 0)
             + DebitedFrom(Tail(xfers), account)

\* what the curve asks of the trader: its source amount and the input mint's
\* inverse transfer fee on it
GrossInput(c) ==
    c.result.source_amount_swapped
        + get_transfer_inverse_fee(c.input_mint, c.result.source_amount_swapped)

\* C1: a swap that returns Ok satisfies (new_swap_source_amount - dynamic_fee) *
\* new_swap_destination_amount >= reserve_in * reserve_out of the reserves before
\* the trade, and a swap for which this is false requests neither vault transfer.
C1_ConstantProduct ==
    /\ last.err = "Ok" => ConstantProductKept
    /\ ~ConstantProductKept =>
           ~Requested("user_to_vault") /\ ~Requested("vault_to_user")

\* a swap settled with a fee charged, and the inequality held
C1_Witness ==
    /\ last.err = "Ok"
    /\ last.result.dynamic_fee > 0
    /\ Requested("user_to_vault") /\ Requested("vault_to_user")
    /\ ConstantProductKept


C3_SlippageBeforeMutation ==
    (/\ last.pc > 120
     /\ last.result.source_amount_swapped > 0
     /\ last.result.source_amount_swapped <= U64_MAX
     /\ GrossInput(last) <= U64_MAX
     /\ GrossInput(last) > last.inp.max_amount_in)
        => last.err = "ExceededSlippage" /\ last.trace = <<>> /\ NothingDone

\* a bound that covers the source amount and not the transfer fee on it
C3_Witness ==
    /\ last.err = "ExceededSlippage"
    /\ last.result.source_amount_swapped <= last.inp.max_amount_in
    /\ GrossInput(last) > last.inp.max_amount_in
    /\ NothingDone

\* C4: a swap on a pool whose Swap bit is not enabled, or at a block timestamp
\* before open_time, fails with NotApproved, changes nothing and requests no
\* transfer; with the bit enabled and a timestamp at (or after) open_time the swap
\* does not fail with NotApproved.
C4_NotApprovedGate ==
    /\ (Called /\ (~get_status_by_bit_Swap(last.pool0)
                    \/ last.clock.unix_timestamp < last.pool0.open_time))
           => last.err = "NotApproved" /\ last.trace = <<>> /\ NothingDone
    /\ (Called /\ get_status_by_bit_Swap(last.pool0)
               /\ last.clock.unix_timestamp >= last.pool0.open_time)
           => last.err # "NotApproved"

\* an enabled pool asked to swap before it opens
C4_Witness ==
    /\ last.err = "NotApproved"
    /\ get_status_by_bit_Swap(last.pool0)
    /\ last.clock.unix_timestamp < last.pool0.open_time
    /\ NothingDone

\* C5: past the status gate, (token_0_vault, token_1_vault) resolves to ZeroForOne
\* with reserves (reserve_0, reserve_1) as (in, out), (token_1_vault,
\* token_0_vault) to OneForZero with (reserve_1, reserve_0), and any other pairing
\* fails with InvalidVault and changes nothing.
C5_DirectionResolution ==
    (Called /\ last.err # "NotApproved") =>
        IF last.inp.input_vault = last.pool0.token_0_vault
           /\ last.inp.output_vault = last.pool0.token_1_vault
        THEN /\ last.err # "InvalidVault"
             /\ last.pc > 82 =>
                    /\ last.trade_direction = "ZeroForOne"
                    /\ last.total_input_token_amount = last.pool0.token_0_vault_amount
                    /\ last.total_output_token_amount = last.pool0.token_1_vault_amount
        ELSE IF last.inp.input_vault = last.pool0.token_1_vault
                /\ last.inp.output_vault = last.pool0.token_0_vault
        THEN /\ last.err # "InvalidVault"
             /\ last.pc > 82 =>
                    /\ last.trade_direction = "OneForZero"
                    /\ last.total_input_token_amount = last.pool0.token_1_vault_amount
                    /\ last.total_output_token_amount = last.pool0.token_0_vault_amount
        ELSE last.err = "InvalidVault" /\ last.trace = <<>> /\ NothingDone

\* a settled swap of token 1 for token 0, the reserves being unequal
C5_Witness ==
    /\ last.err = "Ok"
    /\ last.trade_direction = "OneForZero"
    /\ last.total_input_token_amount = last.pool0.token_1_vault_amount
    /\ last.pool0.token_0_vault_amount # last.pool0.token_1_vault_amount

\* C6: a swap whose curve result has a zero source amount, or whose requested
\* output exceeds the reserve of the output side, fails with ZeroTradingTokens, and
\* no swap completes with a zero source amount.
C6_ZeroTradingTokens ==
    /\ (last.pc > 120 /\ last.result.source_amount_swapped = 0)
           => last.err = "ZeroTradingTokens"
    /\ (last.pc > 82 /\ last.actual_amount_out > ReserveOutBefore)
           => last.err = "ZeroTradingTokens"
    /\ last.err = "Ok" => last.result.source_amount_swapped > 0

\* what the handler does do about C6: a zero source amount ends the swap with an
\* error, which is the one of require_gt; an output beyond the reserve ends it
\* with ZeroTradingTokens
C6_ZeroSourceRejected ==
    /\ (last.pc > 120 /\ last.result.source_amount_swapped = 0)
           => last.err = "RequireGtViolated" /\ last.trace = <<>> /\ NothingDone
    /\ (last.pc > 82 /\ last.actual_amount_out > ReserveOutBefore)
           => last.err = "ZeroTradingTokens"
    /\ last.err = "Ok" => last.result.source_amount_swapped > 0

\* C7: an overflow inside the curve calculation, or in narrowing one of its five
\* results to u64, ends the swap with MathOverflow, the error raised being the
\* one returned.
C7_OverflowSurfaced ==
    /\ last.calc_err = "MathOverflow" => last.err = "MathOverflow"
    /\ (/\ last.pc > 120
         /\ \/ last.result.source_amount_swapped > U64_MAX
            \/ last.result.destination_amount_swapped > U64_MAX
            \/ last.result.protocol_fee > U64_MAX
            \/ last.result.fund_fee > U64_MAX
            \/ last.result.dynamic_fee > U64_MAX)
           => last.err = "MathOverflow"

\* what the handler does do about C7: a result too wide for u64 ends the swap
\* with MathOverflow, and an error of the calculator, whatever its kind, with
\* ZeroTradingTokens
C7_CalculatorErrorReplaced ==
    /\ last.calc_err # "" => last.err = "ZeroTradingTokens" /\ last.pc = 110
    /\ (/\ last.pc > 120
         /\ \/ last.result.source_amount_swapped > U64_MAX
            \/ last.result.destination_amount_swapped > U64_MAX
            \/ last.result.protocol_fee > U64_MAX
            \/ last.result.fund_fee > U64_MAX
            \/ last.result.dynamic_fee > U64_MAX)
           => last.err = "MathOverflow"

\* C8: a swap that returns Ok took actual_amount_out = amount_out_less_fee plus
\* the output mint's inverse transfer fee on it: the calculator's
\* destination_amount_swapped equals it, the one vault-to-trader transfer is for
\* it, and the recorded reserve of the output side went down by it.
C8_ExactOutput ==
    last.err = "Ok" =>
        /\ last.actual_amount_out =
               last.inp.amount_out_less_fee
                   + get_transfer_inverse_fee(last.output_mint,
                                              last.inp.amount_out_less_fee)
        /\ last.result.destination_amount_swapped = last.actual_amount_out
        /\ Requested("vault_to_user")
        /\ \A n \in 1 .. Len(last.xfers) :
               last.xfers[n].kind = "vault_to_user"
                   => last.xfers[n].amount = last.actual_amount_out
        /\ ReserveOutAfter = ReserveOutBefore - last.actual_amount_out
        /\ pool = last.pool

\* a settled swap whose output mint charges a transfer fee
C8_Witness ==
    /\ last.err = "Ok"
    /\ last.out_transfer_fee > 0
    /\ last.actual_amount_out > last.inp.amount_out_less_fee
    /\ ReserveOutAfter = ReserveOutBefore - last.actual_amount_out

\* C9: with a referral record, referral_amount is floor((dynamic_fee -
\* protocol_fee - fund_fee) * share_bps / 10_000); when it is not zero and the
\* input mint's transfer fee on it is less than it, the referral transfer is
\* requested for it and it is subtracted from dynamic_fee, input_transfer_amount
\* and source_amount_swapped; otherwise no referral transfer is requested and the
\* three are left as they were.
C9_ReferralShare ==
    (last.inp.referral_info.some /\ last.pc > 172) =>
        LET referral_amount ==
                ((last.result.dynamic_fee - last.result.protocol_fee
                     - last.result.fund_fee) * last.inp.referral_info.share_bps)
                    \div 10000
            due == /\ referral_amount # 0
                   /\ get_transfer_fee(last.input_mint, referral_amount)
                          < referral_amount
        IN  /\ last.referral_amount = referral_amount
            /\ due =>
                   /\ \E n \in 1 .. Len(last.xfers) :
                          /\ last.xfers[n].kind = "referral"
                          /\ last.xfers[n].amount = referral_amount
                          /\ last.xfers[n].from = TraderInput(last)
                   /\ last.dynamic_fee = last.result.dynamic_fee - referral_amount
                   /\ last.input_transfer_amount = GrossInput(last) - referral_amount
                   /\ last.source_amount_swapped =
                          last.result.source_amount_swapped - referral_amount
            /\ ~due =>
                   /\ ~Requested("referral")
                   /\ last.dynamic_fee = last.result.dynamic_fee
                   /\ last.input_transfer_amount = GrossInput(last)
                   /\ last.source_amount_swapped = last.result.source_amount_swapped

\* a settled swap that paid a referral on which the mint charged a transfer fee
C9_Witness ==
    /\ last.err = "Ok"
    /\ last.inp.referral_info.some
    /\ last.referral_paid /\ Requested("referral")
    /\ last.referral_transfer_fee > 0
    /\ last.referral_amount > last.referral_transfer_fee

\* C10: what a swap that returns Ok takes from the trader's input account, the
\* referral payout and the transfer to the vault together, is the curve's source
\* amount plus the inverse transfer fee on it, is at most max_amount_in, and is
\* what the same request without a referral takes in the same state.
C10_ReferralNotExtraCost ==
    [][(swaps' # swaps /\ last'.err = "Ok") =>
          LET plain == swap_base_output(pool, observation_state, balances, amm_config,
                           mints, clock,
                           [last'.inp EXCEPT !.referral_info = NoReferral])
              debit == DebitedFrom(last'.xfers, TraderInput(last'))
          IN  /\ debit = GrossInput(last')
              /\ debit <= last'.inp.max_amount_in
              /\ balances[TraderInput(last')] - balances'[TraderInput(last')] = debit
              /\ plain.err = "Ok"
              /\ DebitedFrom(plain.xfers, TraderInput(plain)) = debit]_vars

\* a settled swap that paid a referral and took exactly max_amount_in
C10_Witness ==
    /\ last.err = "Ok"
    /\ last.referral_paid
    /\ last.referral_amount > 0
    /\ DebitedFrom(last.xfers, TraderInput(last)) = last.inp.max_amount_in

\* what the referral took off dynamic_fee and source_amount_swapped in the last swap
ReferralTaken == IF last.referral_paid THEN last.referral_amount ELSE 0

\* the changes C11 tells of, for a swap whose input side is token 0
CountersMovedZeroForOne ==
    LET p == last.pool
        q == last.pool0
        r == last.result
    IN  /\ p.protocol_fees_token_0 = q.protocol_fees_token_0 + r.protocol_fee
        /\ p.fund_fees_token_0 = q.fund_fees_token_0 + r.fund_fee
        /\ p.cumulative_trade_fees_token_0 =
               q.cumulative_trade_fees_token_0 + (r.dynamic_fee - ReferralTaken)
        /\ p.cumulative_volume_token_0 =
               q.cumulative_volume_token_0 + (r.source_amount_swapped - ReferralTaken)
        /\ p.token_0_vault_amount =
               q.token_0_vault_amount + (r.source_amount_swapped - ReferralTaken)
                   - r.protocol_fee - r.fund_fee
        /\ p.token_1_vault_amount = q.token_1_vault_amount - last.output_transfer_amount
        /\ p.protocol_fees_token_1 = q.protocol_fees_token_1
        /\ p.fund_fees_token_1 = q.fund_fees_token_1
        /\ p.cumulative_trade_fees_token_1 = q.cumulative_trade_fees_token_1
        /\ p.cumulative_volume_token_1 = q.cumulative_volume_token_1

\* the same for a swap whose input side is token 1
CountersMovedOneForZero ==
    LET p == last.pool
        q == last.pool0
        r == last.result
    IN  /\ p.protocol_fees_token_1 = q.protocol_fees_token_1 + r.protocol_fee
        /\ p.fund_fees_token_1 = q.fund_fees_token_1 + r.fund_fee
        /\ p.cumulative_trade_fees_token_1 =
               q.cumulative_trade_fees_token_1 + (r.dynamic_fee - ReferralTaken)
        /\ p.cumulative_volume_token_1 =
               q.cumulative_volume_token_1 + (r.source_amount_swapped - ReferralTaken)
        /\ p.token_1_vault_amount =
               q.token_1_vault_amount + (r.source_amount_swapped - ReferralTaken)
                   - r.protocol_fee - r.fund_fee
        /\ p.token_0_vault_amount = q.token_0_vault_amount - last.output_transfer_amount
        /\ p.protocol_fees_token_0 = q.protocol_fees_token_0
        /\ p.fund_fees_token_0 = q.fund_fees_token_0
        /\ p.cumulative_trade_fees_token_0 = q.cumulative_trade_fees_token_0
        /\ p.cumulative_volume_token_0 = q.cumulative_volume_token_0

\* C11: a swap that returns Ok adds protocol_fee, fund_fee, dynamic_fee and
\* source_amount_swapped (the last two less a paid referral) to the input side's
\* protocol_fees, fund_fees, cumulative_trade_fees and cumulative_volume, raises
\* the input reserve by source_amount_swapped - protocol_fee - fund_fee, lowers the
\* output reserve by the gross destination transfer amount, and leaves the
\* output side's four counters as they were.
C11_PoolCounters ==
    last.err = "Ok" =>
        /\ last.output_transfer_amount =
               last.inp.amount_out_less_fee
                   + get_transfer_inverse_fee(last.output_mint,
                                              last.inp.amount_out_less_fee)
        /\ IF last.inp.input_vault = last.pool0.token_0_vault
           THEN CountersMovedZeroForOne ELSE CountersMovedOneForZero
        /\ pool = last.pool

\* a settled swap of token 1 for token 0 that paid a referral and both fees
C11_Witness ==
    /\ last.err = "Ok"
    /\ last.inp.input_vault = last.pool0.token_1_vault
    /\ last.referral_paid /\ last.referral_amount > 0
    /\ last.result.protocol_fee > 0 /\ last.result.fund_fee > 0
    /\ last.pool0.protocol_fees_token_1 > 0
    /\ CountersMovedOneForZero

\* partner_fee of C12 for a partner entry, in the last swap's pool and result
PartnerFeeOf(c, partner) ==
    (c.result.protocol_fee
        * ((partner.lp_token_linked_with_partner * 100000) \div c.pool0.lp_supply))
        \div 100000

\* C12: a swap that returns Ok adds floor(protocol_fee * floor(lp_token_linked *
\* 100000 / lp_supply) / 100000) to every partner's counter of the traded
\* direction, leaves the partner's other counter and its linked amount as they
\* were, and requests the transfers (and leaves the balances) that the same swap
\* on the pool without partners does.
C12_PartnerAttribution ==
    [][(swaps' # swaps /\ last'.err = "Ok") =>
          LET c == last'
              bare == swap_base_output([pool EXCEPT !.partners = <<>>],
                          observation_state, balances, amm_config, mints, clock, c.inp)
          IN  /\ Len(c.pool.partners) = Len(pool.partners)
              /\ \A k \in 1 .. Len(pool.partners) :
                     LET a == pool.partners[k]
                         b == c.pool.partners[k]
                         fee == PartnerFeeOf(c, a)
                     IN  /\ b.lp_token_linked_with_partner
                                = a.lp_token_linked_with_partner
                         /\ IF c.trade_direction = "ZeroForOne"
                            THEN /\ b.cumulative_fee_total_times_tvl_share_token_0 =
                                       a.cumulative_fee_total_times_tvl_share_token_0 + fee
                                 /\ b.cumulative_fee_total_times_tvl_share_token_1 =
                                       a.cumulative_fee_total_times_tvl_share_token_1
                            ELSE /\ b.cumulative_fee_total_times_tvl_share_token_1 =
                                       a.cumulative_fee_total_times_tvl_share_token_1 + fee
                                 /\ b.cumulative_fee_total_times_tvl_share_token_0 =
                                       a.cumulative_fee_total_times_tvl_share_token_0
              /\ pool'.partners = c.pool.partners
              /\ bare.err = "Ok"
              /\ bare.xfers = c.xfers
              /\ bare.bal = c.bal]_vars

\* a settled swap of token 0 for token 1 on a pool of two partners, both credited
C12_Witness ==
    /\ last.err = "Ok"
    /\ last.trade_direction = "ZeroForOne"
    /\ Len(last.pool0.partners) = 2
    /\ \A k \in 1 .. 2 :
           /\ PartnerFeeOf(last, last.pool0.partners[k]) > 0
           /\ pool.partners[k].cumulative_fee_total_times_tvl_share_token_0 =
                  last.pool0.partners[k].cumulative_fee_total_times_tvl_share_token_0
                      + PartnerFeeOf(last, last.pool0.partners[k])
           /\ pool.partners[k].cumulative_fee_total_times_tvl_share_token_1 =
                  last.pool0.partners[k].cumulative_fee_total_times_tvl_share_token_1

\* the referral amount of the last swap and whether its payout condition holds,
\* from the curve result and the request
ReferralAmountOf(c) ==
    ((c.result.dynamic_fee - c.result.protocol_fee - c.result.fund_fee)
        * c.inp.referral_info.share_bps) \div 10000

ReferralConditionOf(c) ==
    /\ c.inp.referral_info.some
    /\ ReferralAmountOf(c) # 0
    /\ get_transfer_fee(c.input_mint, ReferralAmountOf(c)) < ReferralAmountOf(c)

\* C13: a swap that returns Ok requested, last and in this order, one transfer
\* from the trader to the input vault of input_transfer_amount and one from the
\* output vault to the trader of output_transfer_amount; before them one
\* referral transfer if the referral payout condition holds, and nothing else.
C13_Transfers ==
    last.err = "Ok" =>
        LET x == last.xfers
            n == Len(x)
            i == InputMintIndex(last.inp.input_vault)
        IN  /\ n = IF ReferralConditionOf(last) THEN 3 ELSE 2
            /\ x[n - 1] = [kind |-> "user_to_vault",
                           from |-> TokenAccount("user", i),
                           to |-> TokenAccount("vault", i),
                           amount |-> last.input_transfer_amount]
            /\ x[n] = [kind |-> "vault_to_user",
                       from |-> TokenAccount("vault", 1 - i),
                       to |-> TokenAccount("user", 1 - i),
                       amount |-> last.output_transfer_amount]
            /\ n = 3 => x[1] = [kind |-> "referral",
                                from |-> TokenAccount("user", i),
                                to |-> TokenAccount("referrer", i),
                                amount |-> ReferralAmountOf(last)]
            /\ last.input_transfer_amount =
                   GrossInput(last)
                       - (IF ReferralConditionOf(last) THEN ReferralAmountOf(last) ELSE 0)
            /\ last.output_transfer_amount = last.actual_amount_out

\* a settled swap of three transfers, and the balances they left
C13_Witness ==
    /\ last.err = "Ok"
    /\ Len(last.xfers) = 3
    /\ last.xfers[1].kind = "referral"
    /\ last.xfers[2].kind = "user_to_vault"
    /\ last.xfers[3].kind = "vault_to_user"
    /\ balances[last.xfers[1].to] > last.bal0[last.xfers[1].to]

\* C14: a swap emits its SwapEvent only if it returns Ok, after the
\* constant-product check and both vault transfers: a swap that returns Ok has
\* emitted one event and a swap that fails has emitted none.
C14_EventOnlyOnSuccess ==
    /\ last.err = "Ok" => Len(last.events) = 1
    /\ (Called /\ last.err # "Ok") => last.events = <<>>

\* what the handler does do about C14: the event is emitted once, by every swap
\* that gets as far as line 313, before the constant-product check of line 330
\* and the transfers, whether the swap then fails or not
C14_EventBeforeCheck ==
    /\ Len(last.events) = (IF last.pc >= 330 THEN 1 ELSE 0)
    /\ last.events # <<>> =>
           /\ last.events[1].base_input = FALSE
           /\ last.events[1].input_amount = last.result.source_amount_swapped
           /\ last.events[1].output_amount = last.result.destination_amount_swapped

\* the place of a step in the steps of the last swap, 0 if it was not taken
StepAt(step) ==
    IF \E n \in 1 .. Len(last.trace) : last.trace[n] = step
    THEN CHOOSE n \in 1 .. Len(last.trace) : last.trace[n] = step
    ELSE 0

\* C15: in a swap the constant-product check comes before any write of a pool
\* counter or reserve, and the pool writes and the oracle update both come before
\* the transfer from the trader and the transfer to the trader are requested.
C15_CheckPersistSettle ==
    /\ StepAt("pool_write") > 0 =>
           StepAt("check_invariant") > 0
               /\ StepAt("check_invariant") < StepAt("pool_write")
    /\ StepAt("partners_write") > 0 =>
           StepAt("check_invariant") > 0
               /\ StepAt("check_invariant") < StepAt("partners_write")
    /\ StepAt("transfer_in") > 0 =>
           /\ StepAt("pool_write") > 0
           /\ StepAt("pool_write") < StepAt("transfer_in")
           /\ StepAt("oracle_update") > 0
           /\ StepAt("oracle_update") < StepAt("transfer_in")
    /\ StepAt("transfer_out") > 0 =>
           /\ StepAt("oracle_update") > 0
           /\ StepAt("oracle_update") < StepAt("transfer_out")

\* the steps of a swap in the order of the handler's statements
StatementOrder ==
    <<"referral_transfer", "partners_write", "pool_write", "emit", "check_invariant",
      "transfer_in", "transfer_out", "oracle_update">>

\* what the handler does do about C15: its steps are taken in the order of its
\* statements, the pool writes before the constant-product check and the oracle
\* update after both vault transfers
C15_OrderOfStatements ==
    /\ \A m, n \in 1 .. Len(last.trace) :
           m < n => \E a, b \in 1 .. Len(StatementOrder) :
                       /\ a < b
                       /\ StatementOrder[a] = last.trace[m]
                       /\ StatementOrder[b] = last.trace[n]
    /\ last.err = "Ok" =>
           /\ StepAt("pool_write") > 0
           /\ StepAt("pool_write") < StepAt("check_invariant")
           /\ StepAt("check_invariant") < StepAt("transfer_in")
           /\ StepAt("transfer_in") < StepAt("transfer_out")
           /\ StepAt("transfer_out") < StepAt("oracle_update")

(***************************************************************************)
(* The oracle                                                              *)
(***************************************************************************)
\* an update has been called
Updated == swaps > 0

\* the last update wrote an observation
Wrote == Updated /\ observation_state # last.before

\* the timestamp of the observation that was current before the last update
LastStamp == CurrentObservation(last.before).block_timestamp

\* C16: after an update at a timestamp has returned, an update at the same
\* timestamp with any prices returns Ok and leaves the oracle as the first call
\* left it; and an update writes an observation only at a timestamp no
\* observation was written at before, so a timestamp has at most one observation
C16_IdempotentPerTimestamp ==
    /\ (Updated /\ last.err = "Ok") =>
            \A price \in OraclePrices :
                ObservationState_update(observation_state, last.now, price[1], price[2])
                    = [err |-> "Ok", state |-> observation_state]
    /\ Wrote => last.now \notin last.stamps

\* a second update at the timestamp the oracle's current observation was written
\* at, which left the oracle alone
C16_Witness ==
    /\ swaps = 2
    /\ last.before.initialized
    /\ last.now = LastStamp
    /\ last.now \in last.stamps
    /\ last.err = "Ok"
    /\ observation_state = last.before

\* a new oracle after n updates a second apart
Fresh(n) == Replay(ObservationState_default, EverySecond(n))

\* 100 updates a second apart take a new oracle's index to 99 with slot 0 still
\* the first observation; the 101st takes it to 0 and writes slot 0 over,
\* leaving every other slot
HundredAndOne ==
    /\ \A n \in 1 .. OBSERVATION_NUM : Fresh(n).observation_index = n - 1
    /\ Fresh(OBSERVATION_NUM).observations[0].block_timestamp = 1
    /\ Fresh(OBSERVATION_NUM + 1).observation_index = 0
    /\ Fresh(OBSERVATION_NUM + 1).observations[0].block_timestamp = OBSERVATION_NUM + 1
    /\ \A i \in 1 .. (OBSERVATION_NUM - 1) :
           Fresh(OBSERVATION_NUM + 1).observations[i] = Fresh(OBSERVATION_NUM).observations[i]

AddMod(a, b) == IF b > U128_MAX - a THEN a - (U128_MAX - b) - 1 ELSE a + b

\* the time from the current observation to the last update, when the update is
\* one on an initialized oracle, later than the current observation, whose
\* products of price and time fit a u128; 0 otherwise
Elapsed ==
    IF /\ Updated
       /\ last.before.initialized
       /\ last.now > LastStamp
       /\ last.p0 <= U128_MAX \div (last.now - LastStamp)
       /\ last.p1 <= U128_MAX \div (last.now - LastStamp)
    THEN last.now - LastStamp
    ELSE 0

C19_FirstUpdate ==
    /\ (Updated /\ ~last.before.initialized) =>
          /\ last.err = "Ok"
          /\ observation_state =
                [last.before EXCEPT
                    !.initialized = TRUE,
                    !.observations[last.before.observation_index] =
                        [block_timestamp |-> last.now,
                         cumulative_token_0_price_x32 |-> 0,
                         cumulative_token_1_price_x32 |-> 0]]
          /\ observation_state.observation_index = last.before.observation_index
    /\ (Updated /\ last.before.initialized) => observation_state.initialized
    /\ Updated => observation_state.initialized

\* a first update with the largest price at timestamp 700
C19_Witness ==
    /\ Updated
    /\ ~last.before.initialized
    /\ last.now = 700
    /\ last.p0 = U128_MAX
    /\ observation_state.initialized
    /\ CurrentObservation(observation_state).block_timestamp = 700

\* the observation the update of an initialized oracle is to write when its
\* timestamp differs from the current observation's: the elapsed time is the
\* difference, or 0 for a timestamp behind the current one
WrittenAt(before, now, p0, p1) ==
    LET delta_t == IF now > CurrentObservation(before).block_timestamp
                   THEN now - CurrentObservation(before).block_timestamp ELSE 0
    IN  [block_timestamp |-> now,
         cumulative_token_0_price_x32 |->
             AddMod(CurrentObservation(before).cumulative_token_0_price_x32, p0 * delta_t),
         cumulative_token_1_price_x32 |->
             AddMod(CurrentObservation(before).cumulative_token_1_price_x32, p1 * delta_t)]

\* C20: on an initialized oracle an update leaves the state only when its
\* timestamp equals the current observation's; with any other timestamp, an
\* earlier one included, it advances the index and writes an observation with
\* that timestamp and cumulative prices last + price * delta_t, delta_t being
\* the elapsed time or 0 when the clock went back
C20_NoOpOnlyAtEqualTimestamp ==
    (Updated /\ last.before.initialized /\ last.err = "Ok") =>
        IF last.now = LastStamp
        THEN observation_state = last.before
        ELSE /\ observation_state.observation_index =
                    (last.before.observation_index + 1) % OBSERVATION_NUM
             /\ CurrentObservation(observation_state) =
                    WrittenAt(last.before, last.now, last.p0, last.p1)

\* C20, as the code has it: on an initialized oracle an update at or behind the
\* current observation's timestamp returns Ok and leaves the state, and a later
\* one that returns Ok advances the index and writes
C20_NoOpAtOrBehindTimestamp ==
    (Updated /\ last.before.initialized) =>
        IF last.now <= LastStamp
        THEN last.err = "Ok" /\ observation_state = last.before
        ELSE last.err = "Ok" =>
               /\ observation_state.observation_index =
                      (last.before.observation_index + 1) % OBSERVATION_NUM
               /\ CurrentObservation(observation_state) =
                      WrittenAt(last.before, last.now, last.p0, last.p1)

\* an update behind the current observation's timestamp, which wrote nothing
C20_Regression ==
    /\ Updated
    /\ last.before.initialized
    /\ last.now < LastStamp
    /\ last.err = "Ok"
    /\ observation_state = last.before

\* the product of a price of the last update and the time since the current
\* observation does not fit a u128
ProductTooWide ==
    /\ Updated
    /\ last.before.initialized
    /\ last.now > LastStamp
    /\ \/ last.p0 > U128_MAX \div (last.now - LastStamp)
       \/ last.p1 > U128_MAX \div (last.now - LastStamp)

\* a pool of reserves (1, 3000), observed at timestamp 0, swapped at timestamp
\* 500: every swap that reaches the oracle update fails there with MathOverflow
\* and with the oracle as it was, and some swap does
SwapFailsAtOracle ==
    LET p == [PoolFresh EXCEPT !.token_0_vault_amount = 1,
                               !.token_1_vault_amount = 3000, !.partners = <<>>]
        run(inp) == swap_base_output(p, ObservedAtZero, Wallet(5000, 5000, 1, 3000),
                                     Config, [mint_0 |-> NoFeeMint, mint_1 |-> NoFeeMint],
                                     [unix_timestamp |-> 500, epoch |-> 1], inp)
    IN  /\ \A inp \in Requests :
              run(inp).pc \in {353, 354, 355, 356, 357} =>
                  /\ run(inp).err = "MathOverflow"
                  /\ run(inp).obs = ObservedAtZero
        /\ \E inp \in Requests : run(inp).pc = 357

\* C21: when token_0_price_x32 * delta_t or token_1_price_x32 * delta_t does not
\* fit 128 bits the update returns MathOverflow and has written nothing: index,
\* initialized and every slot are as before the call; and the swap that made
\* the call fails with that error
C21_OverflowLeavesOracle ==
    /\ ProductTooWide =>
          /\ last.err = "MathOverflow"
          /\ ObservationState_update(last.before, last.now, last.p0, last.p1)
                 = [err |-> "MathOverflow", state |-> last.before]
          /\ observation_state = last.before
    /\ (Updated /\ last.err # "Ok") => ProductTooWide
    /\ SwapFailsAtOracle

\* an update whose product for token 1 alone was too wide
C21_Witness ==
    /\ ProductTooWide
    /\ last.p0 = 1
    /\ last.err = "MathOverflow"
    /\ swaps = 2

\* the timestamps of the observations written so far
Stamps == last.stamps \cup (IF Wrote THEN {last.now} ELSE {})

\* the slot k writes after the current one in the ring (the oldest for k = 1,
\* the current one for k = 100)
SlotAfter(state, k) == (state.observation_index + k) % OBSERVATION_NUM

\* C22: after any sequence of updates, with repeated and decreasing timestamps
\* too, the slots taken in write order, from the one after observation_index
\* round to observation_index, have timestamps that never decrease (a slot never
\* written has the timestamp 0 it was created with), two written slots never
\* have the same timestamp, and the slot at observation_index has the greatest
\* timestamp of all
C22_OrderedByTime ==
    LET ts(k) == observation_state.observations[SlotAfter(observation_state, k)]
                     .block_timestamp
    IN  /\ \A k \in 1 .. (OBSERVATION_NUM - 1) :
              /\ ts(k) <= ts(k + 1)
              /\ ts(k) \in Stamps => ts(k) < ts(k + 1)
        /\ \A i \in 0 .. (OBSERVATION_NUM - 1) :
              observation_state.observations[i].block_timestamp
                  <= CurrentObservation(observation_state).block_timestamp
        /\ observation_state.initialized =>
              CurrentObservation(observation_state).block_timestamp \in Stamps

\* a full ring whose index went round to 0 at timestamp 700, then an update at
\* an earlier timestamp
C22_Witness ==
    /\ swaps = 2
    /\ observation_state.observation_index = 0
    /\ observation_state.observations[0].block_timestamp = 700
    /\ observation_state.observations[OBSERVATION_NUM - 1].block_timestamp
           = OBSERVATION_NUM
    /\ last.now < LastStamp
    /\ last.err = "Ok"

(***************************************************************************)
(* Sequences of swaps                                                      *)
(***************************************************************************)
\* plain trades of 10 out, one in each direction
PlainTrades ==
    { inp \in Requests :
        /\ <<inp.input_vault, inp.output_vault>> \in ValidPairs
        /\ inp.amount_out_less_fee = 10 /\ inp.max_amount_in = 3000
        /\ inp.referral_info = NoReferral /\ inp.fee_rate = 25
        /\ inp.fault = "none" }

\* the observation a swap at time now adds to an initialized oracle whose
\* current observation is earlier, from the prices of pool p
ObservedFrom(p, obs, now) ==
    LET cur == CurrentObservation(obs)
        dt == now - cur.block_timestamp
    IN  [block_timestamp |-> now,
         cumulative_token_0_price_x32 |->
             AddMod(cur.cumulative_token_0_price_x32, token_price_x32(p)[1] * dt),
         cumulative_token_1_price_x32 |->
             AddMod(cur.cumulative_token_1_price_x32, token_price_x32(p)[2] * dt)]

\* C23: a successful swap passes the oracle the prices of the pool as it was
\* before the swap changed a reserve or counter: the observation it adds is the
\* last one plus those prices times the time since the last one; and a further
\* swap at the same timestamp leaves the oracle as it is
C23_PriceBeforeSwap ==
    [][(swaps' = swaps + 1 /\ last'.err = "Ok") =>
          /\ last'.token_0_price_x64_before_swap = token_price_x32(pool)[1]
          /\ last'.token_1_price_x64_before_swap = token_price_x32(pool)[2]
          /\ IF ~observation_state.initialized
             THEN CurrentObservation(observation_state') =
                      [Observation_default EXCEPT
                          !.block_timestamp = clock.unix_timestamp]
             ELSE IF clock.unix_timestamp
                         > CurrentObservation(observation_state).block_timestamp
             THEN /\ last'.obs_written
                  /\ observation_state'.observation_index =
                         (observation_state.observation_index + 1) % OBSERVATION_NUM
                  /\ CurrentObservation(observation_state') =
                         ObservedFrom(pool, observation_state, clock.unix_timestamp)
             ELSE observation_state' = observation_state
          /\ \A inp \in PlainTrades :
                LET again == swap_base_output(pool', observation_state', balances',
                                              amm_config, mints, clock, inp)
                IN  again.err = "Ok" => again.obs = observation_state'
    ]_vars

\* a swap that moved the prices and added an observation of the prices before
\* it, after which another swap at the same timestamp succeeds
C23_Witness ==
    /\ last.err = "Ok"
    /\ last.obs_written
    /\ observation_state.observation_index = 1
    /\ token_price_x32(pool)[1] # last.token_0_price_x64_before_swap
    /\ CurrentObservation(observation_state).cumulative_token_0_price_x32
           = last.token_0_price_x64_before_swap * clock.unix_timestamp
    /\ CurrentObservation(observation_state).cumulative_token_0_price_x32
           # token_price_x32(pool)[1] * clock.unix_timestamp
    /\ \E inp \in PlainTrades :
          swap_base_output(pool, observation_state, balances, amm_config, mints,
                           clock, inp).err = "Ok"

\* the pool's recorded reserve of the input side after the last request
ReserveInAfter ==
    IF last.inp.input_vault = last.pool0.token_0_vault
    THEN last.pool.token_0_vault_amount ELSE last.pool.token_1_vault_amount

\* the curve result of the last request adds the source amount to the input
\* reserve and takes the destination amount from the output reserve
CalculatorAddsUp ==
    /\ last.result.new_swap_source_amount =
           ReserveInBefore + last.result.source_amount_swapped
    /\ last.result.destination_amount_swapped <= ReserveOutBefore
    /\ last.result.new_swap_destination_amount =
           ReserveOutBefore - last.result.destination_amount_swapped

\* C24: a successful swap with share_bps <= 10000, protocol_fee + fund_fee <=
\* dynamic_fee and a curve result that adds up stores the input reserve
\* reserve_in + source_amount_swapped - referral_amount - protocol_fee - fund_fee,
\* which is at least the new_swap_source_amount - dynamic_fee of the
\* constant-product check, and the output reserve of that check; so the product
\* of the stored reserves is not below the product before the swap
C24_StoredProductKept ==
    (/\ last.err = "Ok"
     /\ last.inp.referral_info.share_bps <= 10000
     /\ last.result.protocol_fee + last.result.fund_fee <= last.result.dynamic_fee
     /\ CalculatorAddsUp) =>
        /\ ReserveInAfter =
               ReserveInBefore + last.result.source_amount_swapped - ReferralTaken
                   - last.result.protocol_fee - last.result.fund_fee
        /\ ReserveInAfter >=
               last.result.new_swap_source_amount - last.result.dynamic_fee
        /\ ReserveOutAfter = last.result.new_swap_destination_amount
        /\ pool = last.pool
        /\ ProductAtLeast(pool.token_0_vault_amount, pool.token_1_vault_amount,
                          last.pool0.token_0_vault_amount
                              * last.pool0.token_1_vault_amount)

\* a swap with a paid referral and protocol and fund fees, whose stored input
\* reserve is above the one of the constant-product check
C24_Witness ==
    /\ last.err = "Ok"
    /\ CalculatorAddsUp
    /\ last.referral_paid /\ last.referral_amount > 0
    /\ last.result.protocol_fee > 0 /\ last.result.fund_fee > 0
    /\ ReserveInAfter > last.result.new_swap_source_amount - last.result.dynamic_fee
    /\ pool.token_0_vault_amount * pool.token_1_vault_amount
           > last.pool0.token_0_vault_amount * last.pool0.token_1_vault_amount

\* what a pool records of a vault: its reserve and the protocol and fund fees
\* accrued in its token (i = 0: token 0)
Recorded(p, i) ==
    IF i = 0
    THEN p.token_0_vault_amount + p.protocol_fees_token_0 + p.fund_fees_token_0
    ELSE p.token_1_vault_amount + p.protocol_fees_token_1 + p.fund_fees_token_1

MintOf(i) == IF i = 0 THEN mints.mint_0 ELSE mints.mint_1

\* C25: a successful swap changes the output vault's balance by the change of the
\* output reserve, and the input vault's balance by the change of its reserve
\* plus protocol and fund fees when the input mint charges no transfer fee, by
\* no less when it does; so each vault holds what the pool records of it, or
\* more under a transfer fee, after every swap as before the first
C25_TokenConservation ==
    /\ \A i \in {0, 1} :
          /\ balances[TokenAccount("vault", i)] >= Recorded(pool, i)
          /\ (mints.mint_0.transfer_fee_basis_points = 0
                  /\ mints.mint_1.transfer_fee_basis_points = 0) =>
                 balances[TokenAccount("vault", i)] = Recorded(pool, i)
    /\ last.err = "Ok" =>
          LET i == InputMintIndex(last.inp.input_vault)
              o == 1 - i
              received == balances[TokenAccount("vault", i)]
                              - last.bal0[TokenAccount("vault", i)]
              sent == last.bal0[TokenAccount("vault", o)]
                          - balances[TokenAccount("vault", o)]
          IN  /\ received >= Recorded(pool, i) - Recorded(last.pool0, i)
              /\ MintOf(i).transfer_fee_basis_points = 0 =>
                     received = Recorded(pool, i) - Recorded(last.pool0, i)
              /\ sent = ReserveOutBefore - ReserveOutAfter
              /\ sent = Recorded(last.pool0, o) - Recorded(pool, o)

\* a swap in a token with a transfer fee, with a paid referral, after which the
\* input vault holds more than the pool records of it
C25_Witness ==
    /\ last.err = "Ok"
    /\ last.referral_paid /\ last.referral_amount > 0
    /\ last.input_transfer_fee > 0
    /\ last.protocol_fee > 0 /\ last.fund_fee > 0
    /\ MintOf(InputMintIndex(last.inp.input_vault)).transfer_fee_basis_points > 0
    /\ balances[TokenAccount("vault", InputMintIndex(last.inp.input_vault))]
           > Recorded(pool, InputMintIndex(last.inp.input_vault))

\* the sum of the liquidity shares linked with the partners
RECURSIVE LinkedWithPartners(_)
LinkedWithPartners(partners) ==
    IF partners = <<>> THEN 0
    ELSE Head(partners).lp_token_linked_with_partner + LinkedWithPartners(Tail(partners))

\* the sum of what the last swap added to the partners' counters of both tokens
RECURSIVE CreditedFrom(_)
CreditedFrom(n) ==
    IF n = 0 THEN 0
    ELSE (last.pool.partners[n].cumulative_fee_total_times_tvl_share_token_0
              - last.pool0.partners[n].cumulative_fee_total_times_tvl_share_token_0)
         + (last.pool.partners[n].cumulative_fee_total_times_tvl_share_token_1
              - last.pool0.partners[n].cumulative_fee_total_times_tvl_share_token_1)
         + CreditedFrom(n - 1)

\* C26: with lp_supply > 0 and the partners' linked shares summing to at most
\* lp_supply, the fees a successful swap credits to the partners sum to at most
\* its protocol_fee; with lp_supply = 0 (and a partner in the list) no swap
\* succeeds, the one that comes to the partners fails there with MathOverflow,
\* and no partner counter changes
C26_PartnersWithinProtocolFee ==
    /\ (/\ last.err = "Ok"
        /\ last.pool0.lp_supply > 0
        /\ LinkedWithPartners(last.pool0.partners) <= last.pool0.lp_supply) =>
           /\ Len(last.pool.partners) = Len(last.pool0.partners)
           /\ CreditedFrom(Len(last.pool0.partners)) <= last.protocol_fee
    /\ (Called /\ last.pool0.lp_supply = 0 /\ last.pool0.partners # <<>>) =>
           /\ last.err # "Ok"
           /\ last.pc <= 220
           /\ last.pc >= 210 => last.err = "MathOverflow"
           /\ last.pool.partners = last.pool0.partners
           /\ pool.partners = last.pool0.partners

\* a swap that credited two partners holding all the shares, less in sum than
\* its protocol fee
C26_Witness ==
    /\ last.err = "Ok"
    /\ Len(last.pool0.partners) = 2
    /\ LinkedWithPartners(last.pool0.partners) = last.pool0.lp_supply
    /\ last.pool.partners[1].cumulative_fee_total_times_tvl_share_token_0 > 0
    /\ last.pool.partners[2].cumulative_fee_total_times_tvl_share_token_0 > 0
    /\ CreditedFrom(2) < last.protocol_fee

====
